---- MODULE Spec2Model ----
(***************************************************************************)
(* Analysis pipeline of gem-radar-bot                                      *)
(* (supabase/functions/pipeline-run/index.ts, first version in the file,   *)
(* lines 1-2006) as a state machine over the relational store.             *)
(*                                                                         *)
(* Tables are modelled by what the handlers read and write:                *)
(*   coins  : id -> [status, url (coingecko_coin_url), links]              *)
(*   pages  : set of rows [coin, url, status, usable]                      *)
(*   facts  : coin -> sequence of extracted payloads (insertion order)     *)
(*   scores : coin -> sequence of score rows (insertion order)             *)
(*   deep   : coin -> number of deep_analysis rows                         *)
(* One request is a sequence of stage actions guarded by pc; everything    *)
(* the outside world decides (HTTP responses, LLM replies, the settings    *)
(* row, the clock) is an input chosen with \E.                             *)
(***************************************************************************)
EXTENDS Integers, Sequences, FiniteSets, TLC

VARIABLES coins, pages, facts, scores, deep, pc, response, probe, call

vars == <<coins, pages, facts, scores, deep, pc, response, probe, call>>

(***************************************************************************)
(* Bounds of the exploration                                               *)
(***************************************************************************)
MaxCoins == 2    \* rows the coins table can hold
MaxFacts == 1    \* fact rows per coin
MaxScores == 1   \* score rows per coin
MaxDeep == 1     \* deep_analysis rows per coin

CoinIds == 1..MaxCoins

\* detail-page URLs the listings page / a manual submission can name
CoinUrls == {"cg/a", "cg/b"}

\* official links a detail page can yield in the explored runs: "web" is a
\* URL whose text does not contain 'pdf' ("pdf" would be one that does)
LinkUrls == {"web"}

Min(a, b) == IF a < b THEN a ELSE b

(***************************************************************************)
(* Status enums                                                            *)
(***************************************************************************)
CoinStatuses ==
  {"pending", "processing", "deep_analysis_pending", "analyzed",
   "failed", "insufficient_data", "retry_pending"}

PageStatuses ==
  {"fetched", "failed", "invalid_content", "js_empty",
   "insufficient_content", "pdf_detected"}

\* the values of the page_status enum of the database
DeployedPageStatuses ==
  {"pending", "fetched", "failed", "empty", "invalid_content", "blocked"}

AbsentCoin == [status |-> "absent", url |-> "none", links |-> {}]

Exists(C, id) == C[id].status # "absent"

\* .from('coins').select(...).eq('status', s)
CoinsWithStatus(C, s) == {id \in CoinIds : C[id].status = s}

\* a select without .limit(n): every matching row
BatchUnlimited(cands, limit) == {cands}

\* .limit(n) on a select without ORDER BY: any n of the matching rows
Batch(cands, limit) ==
  {B \in SUBSET cands : Cardinality(B) = Min(limit, Cardinality(cands))}

NoProbe == [stage |-> "none", coin |-> 0, url |-> "none", outcome |-> "none"]

Probe(stage, coin, url, outcome) ==
  [stage |-> stage, coin |-> coin, url |-> url, outcome |-> outcome]

\* the call watched by the last step: none in a pipeline step
NoCall == [op |-> "none"]

(***************************************************************************)
(* coins table writes                                                      *)
(***************************************************************************)
FreeIds(C) == {id \in CoinIds : ~Exists(C, id)}

IdsWithUrl(C, url) == {id \in CoinIds : Exists(C, id) /\ C[id].url = url}

\* .insert({..., coingecko_coin_url: url, status: 'pending'}); the id is
\* generated, official_links defaults to '{}'
InsertCoin(C, url) ==
  IF FreeIds(C) = {} THEN C
  ELSE LET id == CHOOSE i \in FreeIds(C) : \A j \in FreeIds(C) : i <= j
       IN [C EXCEPT ![id] = [status |-> "pending", url |-> url, links |-> {}]]

\* .upsert({name, symbol, coingecko_coin_url, status: 'pending'},
\*         {onConflict: 'coingecko_coin_url'}):
\* a row with the same detail URL is UPDATEd with the payload (its status
\* becomes 'pending', official_links is not in the payload and is kept);
\* otherwise a row is inserted.  A statement the store rejects returns an
\* error nobody reads and changes nothing: that is the same as the URL not
\* being in the listing.
UpsertCoin(C, url) ==
  IF IdsWithUrl(C, url) # {}
  THEN [id \in CoinIds |->
          IF id \in IdsWithUrl(C, url)
          THEN [C[id] EXCEPT !.status = "pending"]
          ELSE C[id]]
  ELSE InsertCoin(C, url)

\* for (const coin of coins) await supabase.from('coins').upsert(...)
RECURSIVE UpsertCoins(_, _)
UpsertCoins(C, listing) ==
  IF listing = {} THEN C
  ELSE LET u == CHOOSE x \in listing : TRUE
       IN UpsertCoins(UpsertCoin(C, u), listing \ {u})

(***************************************************************************)
(* Init: empty store, no request in progress                               *)
(***************************************************************************)
Init ==
  /\ coins = [id \in CoinIds |-> AbsentCoin]
  /\ pages = {}
  /\ facts = [id \in CoinIds |-> <<>>]
  /\ scores = [id \in CoinIds |-> <<>>]
  /\ deep = [id \in CoinIds |-> 0]
  /\ pc = "idle"
  /\ response = "none"
  /\ probe = NoProbe
  /\ call = NoCall

(***************************************************************************)
(* Entrypoint: reset requests                                              *)
(***************************************************************************)
\* a reset that moves a coin already pending on to processing
ResetStuckCoinRowsRequeueing(C, ids) ==
  [id \in CoinIds |->
     IF id \in ids /\ Exists(C, id)
     THEN [C[id] EXCEPT !.status = IF @ = "pending" THEN "processing" ELSE "pending"]
     ELSE C[id]]

\* resetStuckCoin(coinId): status := pending, delete pages, facts, scores
ResetStuckCoinRows(C, ids) ==
  [id \in CoinIds |->
     IF id \in ids /\ Exists(C, id)
     THEN [C[id] EXCEPT !.status = "pending"]
     ELSE C[id]]

ResetChildren(ids) ==
  /\ pages' = {p \in pages : p.coin \notin ids}
  /\ facts' = [id \in CoinIds |-> IF id \in ids THEN <<>> ELSE facts[id]]
  /\ scores' = [id \in CoinIds |-> IF id \in ids THEN <<>> ELSE scores[id]]

\* body.reset_coin_id: the id is whatever the caller sends
ResetCoinRequest ==
  /\ pc = "idle"
  /\ \E id \in CoinIds :
       /\ coins' = ResetStuckCoinRows(coins, {id})
       /\ ResetChildren({id})
       /\ call' = [op |-> "reset_coin", id |-> id,
                   repeated |-> (call.op = "reset_coin" /\ call.id = id)]
  /\ response' = "coin_reset"
  /\ probe' = NoProbe
  /\ UNCHANGED <<deep, pc>>

\* the select of resetAllStuckCoins without its .lt('updated_at', ...) filter
StuckCoinsOfAnyAge(C, stale) ==
  CoinsWithStatus(C, "processing") \cup CoinsWithStatus(C, "retry_pending")

\* the select of resetAllStuckCoins: .in('status', ['processing',
\* 'retry_pending']).lt('updated_at', oneHourAgo); stale = the ids whose
\* updated_at is more than one hour before the clock reading of the call
StuckCoins(C, stale) ==
  (CoinsWithStatus(C, "processing") \cup CoinsWithStatus(C, "retry_pending"))
    \cap stale

\* oneHourAgo = Date.now() - 60 * 60 * 1000 never decreases: when the
\* previous request was a sweep too, a row it found an hour old and did not
\* write to is still an hour old
ClockMovesForward(stale) ==
  (call.op = "reset_all") => ((call.stale \ call.selected) \subseteq stale)

\* body.reset_all_stuck: coins in processing / retry_pending whose
\* updated_at is more than one hour old; which rows are that old is
\* decided by the clock
ResetAllStuckRequest ==
  /\ pc = "idle"
  /\ \E stale \in SUBSET CoinIds :
       LET stuck == StuckCoins(coins, stale)
       IN /\ ClockMovesForward(stale)
          /\ coins' = ResetStuckCoinRows(coins, stuck)
          /\ ResetChildren(stuck)
          /\ call' = [op |-> "reset_all", stale |-> stale, selected |-> stuck]
  /\ response' = "all_coins_reset"
  /\ probe' = NoProbe
  /\ UNCHANGED <<deep, pc>>

\* the serve handler with two awaits exchanged: pages are fetched before
\* the retry handling
StageAfterFetchFirst(stage) ==
  CASE stage = "idle"    -> "resolve"
    [] stage = "resolve" -> "fetch"
    [] stage = "fetch"   -> "retries"
    [] stage = "retries" -> "extract"
    [] stage = "extract" -> "score"
    [] stage = "score"   -> "deep"
    [] stage = "deep"    -> "idle"

\* the serve handler's sequence of awaits: the stage that runs when `stage`
\* has returned ("idle": stage 1 has returned; result "idle": the success
\* response is sent)
StageAfter(stage) ==
  CASE stage = "idle"    -> "resolve"
    [] stage = "resolve" -> "retries"
    [] stage = "retries" -> "fetch"
    [] stage = "fetch"   -> "extract"
    [] stage = "extract" -> "score"
    [] stage = "score"   -> "deep"
    [] stage = "deep"    -> "idle"

\* a handler whose catch block logs the error and lets the run go on
StageOnThrowSwallowed(stage) == StageAfter(stage)

\* the catch block of the serve handler: an error thrown by `stage` ends the
\* request with the 500 response; no further stage is awaited
StageOnThrow(stage) == "idle"

(***************************************************************************)
(* Entrypoint: standard run and manual_url run, stage 1                    *)
(***************************************************************************)
\* discoverRecentListings: settings gate, up to 3 scraping attempts, then
\* the upsert loop.  gate = hybrid_mode or coingecko.com not allowed;
\* listing = the de-duplicated result of parseCoinGeckoListings ({} when
\* every attempt failed); the function never rethrows.
DiscoverRecentListings(gate, listing) ==
  IF gate \/ listing = {} THEN coins
  ELSE UpsertCoins(coins, listing)

\* a request without reset parameters and without manual_url, in a world
\* where the settings gate is one of `gates` and the parsed listing one of
\* `listings`
StandardRun(gates, listings) ==
  /\ pc = "idle"
  /\ \E gate \in gates, listing \in listings :
       coins' = DiscoverRecentListings(gate, listing)
  /\ pc' = StageAfter("idle")
  /\ response' = "none"
  /\ probe' = NoProbe
  /\ UNCHANGED <<pages, facts, scores, deep>>
  /\ call' = NoCall

StandardRunRequest == StandardRun(BOOLEAN, SUBSET CoinUrls)

\* processManualCoin(manual_url): regex check, fetch of the page,
\* existing-coin check by detail URL, insert.
\*   url = "bad" is a URL the regex rejects; fetchOk the HTTP outcome;
\*   insertOk whether the insert returns no error.
\* urlPattern.test(manual_url): of the URLs explored, the ones of the
\* detail-page shape are the CoinUrls
MatchesDetailUrl(url) == url \in CoinUrls

ManualFetchesUnchecked(url) == 1

\* the requests processManualCoin sends: the shape test throws before the
\* one fetch of the detail page
ManualFetches(url) == IF MatchesDetailUrl(url) THEN 1 ELSE 0

CoinsRequeuedByDuplicate(C, url) == UpsertCoin(C, url)

\* existingCoin found: return without writing
CoinsAfterDuplicate(C, url) == C

\* what processManualCoin(url) does to the coins table and to the request
ProcessManualCoin(url, fetchOk, insertOk) ==
  IF ~MatchesDetailUrl(url) \/ ~fetchOk
  THEN /\ pc' = StageOnThrow("idle")
       /\ response' = "error"
       /\ UNCHANGED coins
  ELSE IF IdsWithUrl(coins, url) # {}
  THEN /\ pc' = StageAfter("idle")
       /\ response' = "none"
       /\ coins' = CoinsAfterDuplicate(coins, url)
  ELSE IF insertOk /\ FreeIds(coins) # {}
  THEN /\ pc' = StageAfter("idle")
       /\ response' = "none"
       /\ coins' = InsertCoin(coins, url)
  ELSE /\ pc' = StageOnThrow("idle")
       /\ response' = "error"
       /\ UNCHANGED coins

\* call records what the submission did: the URL, whether it had the
\* detail-page shape, the number of network requests issued, whether the
\* detail page answered, and whether a coin with that URL existed
ManualRunRequest ==
  /\ pc = "idle"
  /\ \E url \in CoinUrls \cup {"bad"}, fetchOk \in BOOLEAN, insertOk \in BOOLEAN :
       /\ call' = [op |-> "manual", url |-> url,
                   shape |-> MatchesDetailUrl(url),
                   fetches |-> ManualFetches(url),
                   answered |-> (MatchesDetailUrl(url) /\ fetchOk),
                   existing |-> (IdsWithUrl(coins, url) # {})]
       /\ ProcessManualCoin(url, fetchOk, insertOk)
  /\ probe' = NoProbe
  /\ UNCHANGED <<pages, facts, scores, deep>>

(***************************************************************************)
(* Stage 2: resolveOfficialLinks                                           *)
(***************************************************************************)
\* per coin: the detail-page fetch fails (non-OK response or thrown error:
\* the coin is skipped), or parseOfficialLinks returns a link map
ResolveOutcomes ==
  {[ok |-> FALSE, links |-> {}]} \cup {[ok |-> TRUE, links |-> L] : L \in SUBSET LinkUrls}

ResolveLimit == 10

ResolveCoin(row, out) ==
  IF out.ok THEN [row EXCEPT !.links = out.links, !.status = "processing"]
  ELSE row

ResolveStage(outcomes) ==
  /\ pc = "resolve"
  /\ \E B \in Batch(CoinsWithStatus(coins, "pending"), ResolveLimit) :
       \E out \in [B -> outcomes] :
         /\ coins' = [id \in CoinIds |->
                        IF id \in B THEN ResolveCoin(coins[id], out[id]) ELSE coins[id]]
         /\ \/ /\ B = {}
               /\ probe' = NoProbe
            \/ \E c \in B :
                 probe' = Probe("resolve", c, "none",
                                IF out[c].ok THEN "resolved" ELSE "fetch_failed")
  /\ pc' = StageAfter("resolve")
  /\ UNCHANGED <<pages, facts, scores, deep, response>>
  /\ call' = NoCall

ResolveOfficialLinks == ResolveStage(ResolveOutcomes)

(***************************************************************************)
(* Stage 2.5: handleRetries                                                *)
(***************************************************************************)
RetryLimit == 5

HasFetchedPage(P, c) == \E p \in P : p.coin = c /\ p.status = "fetched"

\* tooOld: now - created_at > 24h, read from the clock
\* a variant that looks at the pages before the age
RetryStatusPagesFirst(P, c, tooOld) ==
  IF HasFetchedPage(P, c) THEN "processing"
  ELSE IF tooOld THEN "failed"
  ELSE "pending"

RetryStatus(P, c, tooOld) ==
  IF tooOld THEN "failed"
  ELSE IF HasFetchedPage(P, c) THEN "processing"
  ELSE "pending"

HandleRetries ==
  /\ pc = "retries"
  /\ \E B \in Batch(CoinsWithStatus(coins, "retry_pending"), RetryLimit) :
       \E old \in SUBSET B :
         /\ coins' = [id \in CoinIds |->
                        IF id \in B
                        THEN [coins[id] EXCEPT !.status = RetryStatus(pages, id, id \in old)]
                        ELSE coins[id]]
         /\ \/ /\ B = {}
               /\ probe' = NoProbe
            \/ \E c \in B :
                 probe' = Probe("retries", c, "none",
                                IF c \in old THEN "too_old" ELSE "retry")
  /\ pc' = StageAfter("retries")
  /\ UNCHANGED <<pages, facts, scores, deep, response>>
  /\ call' = NoCall

(***************************************************************************)
(* Stage 3: fetchPages                                                     *)
(***************************************************************************)
FetchLimit == 5

\* url.toLowerCase().includes('pdf')
IsPdfUrl(u) == u = "pdf"

\* What one URL's retry loop ends with:
\*   pdf_detected          processPdfDocument upserted the row (success: true)
\*   pdf_failed            processPdfDocument caught an error (row failed)
\*   invalid_content       non-HTML content type, or short / non-HTML body
\*   fetched_long          extracted text of more than 100 characters
\*   fetched_short         extracted text of 50..100 characters
\*   js_empty              < 50 characters, JS-heavy
\*   insufficient_content  < 50 characters, not JS-heavy
\*   failed                4xx, or 429/5xx/throw on every attempt
UrlOutcomes(u) ==
  IF IsPdfUrl(u) THEN {"pdf_detected", "pdf_failed"}
  ELSE {"pdf_detected", "pdf_failed", "invalid_content", "fetched_long",
        "fetched_short", "js_empty", "insufficient_content", "failed"}

\* the outcomes the explored runs let the outside world produce; the ones
\* left out (pdf_failed, invalid_content, js_empty, insufficient_content)
\* differ from "failed" only in the label stored in the page row
HttpOutcomes == {"pdf_detected", "fetched_long", "fetched_short", "failed"}

OutcomeStatus(o) ==
  CASE o = "pdf_detected" -> "pdf_detected"
    [] o = "pdf_failed" -> "failed"
    [] o \in {"fetched_long", "fetched_short"} -> "fetched"
    [] OTHER -> o

\* the outcomes after which successfulPages++ is executed
CountsAsSuccess(o) == o \in {"pdf_detected", "fetched_long", "fetched_short"}

PageRow(c, u, o) ==
  [coin |-> c, url |-> u, status |-> OutcomeStatus(o), usable |-> (o = "fetched_long")]

\* .from('pages').upsert({coin_id, url, ...}) without onConflict: the
\* conflict target is the primary key id, which the payload does not carry,
\* so the statement is a plain INSERT; UNIQUE(coin_id, url) rejects it when
\* the pair already has a row and the returned error is not inspected.
\* The status column takes the values of the page_status enum; a row whose
\* status is none of them (pdf_detected, js_empty, insufficient_content) is
\* rejected by the store in the same uninspected way.
UpsertPage(P, row) ==
  IF row.status \notin DeployedPageStatuses THEN P
  ELSE IF \E p \in P : p.coin = row.coin /\ p.url = row.url THEN P
  ELSE P \cup {row}

\* the inner for-loop over Object.entries(links) of one coin; a result is
\* the pages table, successfulPages, and the outcome seen for the watched
\* (coin, url) pair
RECURSIVE FetchCoinUrls(_, _, _, _, _)
FetchCoinUrls(acc, c, urls, watch, world) ==
  IF urls = {} THEN acc
  ELSE LET u == CHOOSE x \in urls : TRUE
           step == {[pages |-> UpsertPage(r.pages, PageRow(c, u, o)),
                     n |-> r.n + (IF CountsAsSuccess(o) THEN 1 ELSE 0),
                     seen |-> IF watch = <<c, u>> THEN o ELSE r.seen] :
                      r \in acc, o \in UrlOutcomes(u) \cap world}
       IN FetchCoinUrls(step, c, urls \ {u}, watch, world)

\* the outer loop over the selected coins; allowed = the link URLs that pass
\* isAllowedDomain under the settings row read at the start of the stage
RECURSIVE FetchBatch(_, _, _, _, _)
FetchBatch(acc, B, allowed, watch, world) ==
  IF B = {} THEN acc
  ELSE LET c == CHOOSE x \in B : TRUE
           step == UNION {
             {[coins |-> IF k.n = 0
                         THEN [r.coins EXCEPT ![c].status = "insufficient_data"]
                         ELSE r.coins,
               pages |-> k.pages,
               seen |-> k.seen] :
                k \in FetchCoinUrls({[pages |-> r.pages, n |-> 0, seen |-> r.seen]},
                                    c, r.coins[c].links \cap allowed, watch, world)} :
             r \in acc}
       IN FetchBatch(step, B \ {c}, allowed, watch, world)

\* a variant of the status filter that also takes coins marked
\* insufficient_data, as a stage retrying them would
FetchCandidatesWithInsufficient(C) ==
  CoinsWithStatus(C, "processing") \cup CoinsWithStatus(C, "insufficient_data")

\* .from('coins').select('id, official_links').eq('status', 'processing')
FetchCandidates(C) == CoinsWithStatus(C, "processing")

\* fetchPages in a world whose URLs answer with one of `world` and whose
\* allow_domains setting lets one of `allowSets` pass
FetchStage(world, allowSets) ==
  /\ pc = "fetch"
  /\ \E B \in Batch(FetchCandidates(coins), FetchLimit) :
       \E allowed \in allowSets :
         \E wc \in CoinIds, wu \in LinkUrls :
           \E r \in FetchBatch({[coins |-> coins, pages |-> pages, seen |-> "none"]},
                               B, allowed, <<wc, wu>>, world) :
             /\ coins' = r.coins
             /\ pages' = r.pages
             /\ probe' = IF r.seen = "none" THEN NoProbe
                         ELSE Probe("fetch", wc, wu, r.seen)
  /\ pc' = StageAfter("fetch")
  /\ UNCHANGED <<facts, scores, deep, response>>
  /\ call' = NoCall

FetchPages == FetchStage(HttpOutcomes, SUBSET LinkUrls)

(***************************************************************************)
(* Fact payloads                                                           *)
(*                                                                         *)
(* A claim is [pillar, type, value, proof]:                                *)
(*   value  "yes" / "true" : a string containing that word                 *)
(*          "other"        : any other string                              *)
(*          "missing"      : undefined or null                             *)
(*          "nonstring"    : a JSON boolean or number                      *)
(*   proof  the set of hostnames of its proof_urls ({} = none)             *)
(* A payload is the `extracted` column of a fact row.                      *)
(***************************************************************************)
Claim(pillar, type, value, proof) ==
  [pillar |-> pillar, type |-> type, value |-> value, proof |-> proof]

Payload(claims, partners, hi, lo, contradictions, guaranteed, audit, copycat, misleading) ==
  [claims |-> claims,
   partners |-> partners,            \* on_chain_traction.partners.length
   integ_hi |-> hi,                  \* integrations of type infra / exchange
   integ_lo |-> lo,                  \* other integrations
   contradictions |-> contradictions,\* contradictions.length
   guaranteed |-> guaranteed,        \* red_flags.guaranteed_returns, by wording
   audit_no_source |-> audit,        \* red_flags.audit_claim_no_source === true
   copycat |-> copycat,              \* red_flags.suspected_copycat is truthy
   misleading |-> misleading,        \* red_flags.misleading_claims.length
   fallback |-> FALSE]

EmptyPayload == Payload(<<>>, 0, 0, 0, 0, <<>>, FALSE, FALSE, 0)

\* fallbackData of the AI_PARSE_FALLBACK branch: it has no claims, no
\* contradictions and no red_flags key, on_chain_traction has no partners
\* key and an empty integrations list
FallbackData == [EmptyPayload EXCEPT !.fallback = TRUE]

\* A parsed LLM object before the defaults are applied: the payload it would
\* carry, and which of the keys it really has
RawObject(payload, claimsOk, hasTraction, hasContradictions, hasRedFlags) ==
  [payload |-> payload, claimsOk |-> claimsOk, hasTraction |-> hasTraction,
   hasContradictions |-> hasContradictions, hasRedFlags |-> hasRedFlags]

\* extractFacts, the block after JSON.parse: claims := [] unless an array;
\* on_chain_traction, contradictions, red_flags := empty structures if absent
NormalizeExtracted(raw) ==
  [raw.payload EXCEPT
     !.claims = IF raw.claimsOk THEN @ ELSE <<>>,
     !.partners = IF raw.hasTraction THEN @ ELSE 0,
     !.integ_hi = IF raw.hasTraction THEN @ ELSE 0,
     !.integ_lo = IF raw.hasTraction THEN @ ELSE 0,
     !.contradictions = IF raw.hasContradictions THEN @ ELSE 0,
     !.guaranteed = IF raw.hasRedFlags THEN @ ELSE <<>>,
     !.audit_no_source = IF raw.hasRedFlags THEN @ ELSE FALSE,
     !.copycat = IF raw.hasRedFlags THEN @ ELSE FALSE,
     !.misleading = IF raw.hasRedFlags THEN @ ELSE 0]

(***************************************************************************)
(* Scorer: calculateCoinScore and its helpers.                             *)
(* Pillar contributions (sub_score / 100) * weight are kept in hundredths  *)
(* (sub_score * weight) so that the arithmetic stays in the integers.      *)
(***************************************************************************)
DEFAULT_SCORING_WEIGHTS ==
  [security_rug_pull |-> 15, tokenomics |-> 10, team_transparency |-> 20,
   product_roadmap |-> 20, onchain_traction |-> 10, market_narrative |-> 15,
   community |-> 10]

Max(a, b) == IF a > b THEN a ELSE b

Clamp(lo, hi, x) == Max(lo, Min(hi, x))

\* claimsByPillar[p] || []
ClaimsOfPillar(f, p) == SelectSeq(f.claims, LAMBDA c : c.pillar = p)

OfType(cs, t) == SelectSeq(cs, LAMBDA c : c.type = t)

\* cs.some(c => c.value?.toLowerCase().includes(w1) || ...): "T", "F", or
\* "X" when toLowerCase is called on a non-string before a match is found
RECURSIVE SomeValueIn(_, _)
SomeValueIn(cs, words) ==
  IF cs = <<>> THEN "F"
  ELSE IF Head(cs).value = "nonstring" THEN "X"
  ELSE IF Head(cs).value \in words THEN "T"
  ELSE SomeValueIn(Tail(cs), words)

calculateSecurityScoreFromClaims(cs) ==
  LET audits == Len(OfType(cs, "audit"))
      s1 == IF audits > 0 THEN 60 + (IF audits > 1 THEN 20 ELSE 0) ELSE 0
      s2 == IF Len(OfType(cs, "risk_language")) > 0 THEN s1 - 30 ELSE s1
      s3 == IF Len(OfType(cs, "legal")) > 0 THEN s2 + 20 ELSE s2
  IN Clamp(0, 100, s3)

calculateTokenomicsScoreFromClaims(cs) ==
  LET supply == Len(OfType(cs, "supply")) > 0
      vesting == Len(OfType(cs, "vesting")) > 0
  IN Clamp(0, 100, (IF supply THEN 40 ELSE 0) + (IF vesting THEN 35 ELSE 0)
                     + (IF supply /\ vesting THEN 25 ELSE 0))

calculateTeamScoreFromClaims(cs) ==
  LET doxxed == OfType(cs, "doxxed_team")
      s1 == IF Len(doxxed) > 0 /\ SomeValueIn(doxxed, {"yes", "true"}) = "T"
            THEN 70 ELSE 0
  IN Clamp(0, 100, s1 + (IF Len(cs) > 1 THEN 30 ELSE 0))

calculateProductScoreFromClaims(cs) ==
  LET mvp == OfType(cs, "mvp")
      roadmap == Len(OfType(cs, "roadmap_date"))
      s1 == IF Len(mvp) > 0 /\ SomeValueIn(mvp, {"yes"}) = "T" THEN 50 ELSE 0
      s2 == IF roadmap > 0 THEN 30 + (IF roadmap > 2 THEN 20 ELSE 0) ELSE 0
  IN Clamp(0, 100, s1 + s2)

calculateTractionScoreFromClaims(cs, f) ==
  LET partnerPts == CASE f.partners = 0 -> 0
                      [] f.partners = 1 -> 25
                      [] f.partners = 2 -> 45
                      [] f.partners = 3 -> 65
                      [] OTHER -> 85
      integPts == Min(15, 4 * f.integ_hi + 3 * f.integ_lo)
  IN Clamp(0, 100, partnerPts + integPts
                     + (IF Len(OfType(cs, "partner")) > 0 THEN 20 ELSE 0)
                     + (IF Len(OfType(cs, "integration")) > 0 THEN 15 ELSE 0))

calculateMarketScoreFromClaims(cs) ==
  Clamp(0, 100, 20 + (IF Len(OfType(cs, "competitor")) > 0 THEN 40 ELSE 0)
                  + (IF Len(cs) > 1 THEN 40 ELSE 0))

calculateCommunityScoreFromClaims(cs) ==
  LET channels == Len(OfType(cs, "channel"))
  IN Clamp(0, 100, 10 + (IF channels > 0 THEN 30 + (IF channels > 2 THEN 30 ELSE 0) ELSE 0)
                     + (IF Len(cs) > channels THEN 30 ELSE 0))

\* the seven pillar sub-scores, 0..100 each
SubScores(f) ==
  [security_rug_pull |-> calculateSecurityScoreFromClaims(ClaimsOfPillar(f, "security")),
   tokenomics |-> calculateTokenomicsScoreFromClaims(ClaimsOfPillar(f, "tokenomics")),
   team_transparency |-> calculateTeamScoreFromClaims(ClaimsOfPillar(f, "team")),
   product_roadmap |-> calculateProductScoreFromClaims(ClaimsOfPillar(f, "product")),
   onchain_traction |-> calculateTractionScoreFromClaims(ClaimsOfPillar(f, "traction"), f),
   market_narrative |-> calculateMarketScoreFromClaims(ClaimsOfPillar(f, "market")),
   community |-> calculateCommunityScoreFromClaims(ClaimsOfPillar(f, "community"))]

PillarNames == DOMAIN DEFAULT_SCORING_WEIGHTS

\* the number NaN: what (sub_score / 100) * w[p] is when the weight map has
\* no key p, and what every sum, Math.min, Math.max and Math.round of it is
NaN == 0 - 1000000

\* pillars[p] = (sub_score / 100) * w[p], in hundredths
Pillars100(f, w) ==
  [p \in PillarNames |->
     IF p \in DOMAIN w THEN SubScores(f)[p] * w[p] ELSE NaN]

RECURSIVE SumOver(_, _)
SumOver(fn, S) ==
  IF S = {} THEN 0
  ELSE LET x == CHOOSE y \in S : TRUE IN fn[x] + SumOver(fn, S \ {x})

\* Object.values(pillars).reduce((sum, score) => sum + score, 0)
BaseScore100(pillars) ==
  IF \E p \in PillarNames : pillars[p] = NaN THEN NaN
  ELSE SumOver(pillars, PillarNames)

\* penalty of one guaranteed_returns phrase, by its wording class
PhrasePenalty(ph) ==
  CASE ph = "severe" -> 15      \* contains 'guaranteed' or '100%'
    [] ph = "medium" -> 10      \* contains 'risk-free' or 'safe'
    [] OTHER -> 5

\* one penalty for the whole list: that of its most severe phrase
RECURSIVE GuaranteePenaltyWorstOnly(_)
GuaranteePenaltyWorstOnly(phrases) ==
  IF phrases = <<>> THEN 0
  ELSE Max(PhrasePenalty(Head(phrases)), GuaranteePenaltyWorstOnly(Tail(phrases)))

RECURSIVE GuaranteePenalty(_)
GuaranteePenalty(phrases) ==
  IF phrases = <<>> THEN 0
  ELSE PhrasePenalty(Head(phrases)) + GuaranteePenalty(Tail(phrases))

\* calculateCoinScore throws a TypeError when toLowerCase is applied to a
\* value that is not a string: in the two .some() scans, in the
\* guaranteed_returns loop and in the mvp green-flag filter
ScoreThrows(f) ==
  \/ SomeValueIn(OfType(ClaimsOfPillar(f, "team"), "doxxed_team"), {"yes", "true"}) = "X"
  \/ SomeValueIn(OfType(ClaimsOfPillar(f, "product"), "mvp"), {"yes"}) = "X"
  \/ \E i \in 1..Len(f.guaranteed) : f.guaranteed[i] = "nonstring"
  \/ \E i \in 1..Len(f.claims) : f.claims[i].type = "mvp" /\ f.claims[i].value = "nonstring"

\* applyPenaltiesAndCaps: penalties (a non-positive total), cap, final score
PenaltyTotal(f) ==
  0 - GuaranteePenalty(f.guaranteed)
    - (IF f.audit_no_source THEN 3 ELSE 0)
    - (IF f.copycat THEN 7 ELSE 0)

NoCap == 0 - 1

OverallCap(f) == IF f.contradictions > 0 \/ f.misleading > 0 THEN 20 ELSE NoCap

\* Math.round of a non-negative number given in hundredths
Round100(x) == (x + 50) \div 100

\* one entry of red_flags: which rule wrote it and the penalty its text
\* mentions
RedFlag(rule, penalty) == [rule |-> rule, penalty |-> penalty]

\* red_flags in the order applyPenaltiesAndCaps pushes them: one entry for
\* all guaranteed_returns phrases together, then audit, copycat, cap
RedFlags(f) ==
  (IF Len(f.guaranteed) > 0
   THEN <<RedFlag("guaranteed_returns", 0 - GuaranteePenalty(f.guaranteed))>>
   ELSE <<>>)
  \o (IF f.audit_no_source THEN <<RedFlag("audit_claim_no_source", 0 - 3)>> ELSE <<>>)
  \o (IF f.copycat THEN <<RedFlag("suspected_copycat", 0 - 7)>> ELSE <<>>)
  \o (IF OverallCap(f) # NoCap THEN <<RedFlag("capped", 0)>> ELSE <<>>)

WithProof(cs) == SelectSeq(cs, LAMBDA c : c.proof # {})

\* green_flags, in the order they are pushed
GreenFlags(f) ==
  (IF Len(WithProof(OfType(f.claims, "audit"))) > 0 THEN <<"audited">> ELSE <<>>)
  \o (IF SomeValueIn(OfType(f.claims, "mvp"), {"yes"}) = "T" THEN <<"mvp">> ELSE <<>>)
  \o (IF Len(WithProof(ClaimsOfPillar(f, "tokenomics"))) >= 2
      THEN <<"tokenomics_documented">> ELSE <<>>)
  \o (IF Len(ClaimsOfPillar(f, "community")) >= 2 THEN <<"multiple_channels">> ELSE <<>>)

applyPenaltiesAndCaps(f, base100) ==
  LET raw == base100 + 100 * PenaltyTotal(f)
      capped == IF OverallCap(f) # NoCap THEN Min(100 * OverallCap(f), raw) ELSE raw
  IN [finalScore |-> IF base100 = NaN THEN NaN
                     ELSE Round100(Clamp(0, 10000, capped)),
      overall_cap |-> OverallCap(f),
      penalties |-> PenaltyTotal(f),
      red_flags |-> RedFlags(f),
      green_flags |-> GreenFlags(f)]

\* a freshness term read off the clock: full marks in the first hour
FreshnessByClock == IF call.now = 0 THEN 100 ELSE 80

\* const freshness = 0.8, in hundredths
Freshness == 80

\* the set of hostnames of all proof URLs
ProofDomains(cs) == UNION {cs[i].proof : i \in 1..Len(cs)}

\* Math.round((0.6 * coverage + 0.2 * sourceDiversity + 0.2 * freshness)
\* * 100) / 100, in hundredths; coverage = claimsWithProof / totalClaims
\* (0 without claims), sourceDiversity = min(uniqueDomains / 3, 1).
\* The sum is the fraction num / (300 * n); Math.round rounds half up.
Confidence100(f) ==
  LET n == Len(f.claims)
      k == Len(WithProof(f.claims))
      u == Min(3, Cardinality(ProofDomains(f.claims)))
  IN IF n = 0 THEN (20 * Freshness + 50) \div 100
     ELSE LET num == 18000 * k + 2000 * u * n + 60 * Freshness * n
          IN (2 * num + 300 * n) \div (600 * n)

calculateCoinScore(f, w) ==
  LET pillars == Pillars100(f, w)
      res == applyPenaltiesAndCaps(f, BaseScore100(pillars))
  IN [overall |-> res.finalScore,
      overall_cap |-> res.overall_cap,
      confidence |-> Confidence100(f),
      pillars |-> pillars,
      penalties |-> 0 - res.penalties,
      red_flags |-> res.red_flags,
      green_flags |-> res.green_flags]

(***************************************************************************)
(* Stage 4: extractFacts                                                   *)
(***************************************************************************)
ExtractLimit == 3

ProofHost == {"site.example"}

\* objects the LLM returns in the pipeline runs explored here:
\*   a doxxed-team claim with a proof URL, every key present;
\*   the same claim without proof_urls, optional keys absent;
\*   a doxxed-team claim whose value is the JSON boolean true
LlmObjects ==
  {RawObject([EmptyPayload EXCEPT !.claims = <<Claim("team", "doxxed_team", "yes", ProofHost)>>],
             TRUE, TRUE, TRUE, TRUE),
   RawObject([EmptyPayload EXCEPT !.claims = <<Claim("team", "doxxed_team", "yes", {})>>],
             TRUE, FALSE, FALSE, FALSE),
   RawObject([EmptyPayload EXCEPT !.claims = <<Claim("team", "doxxed_team", "nonstring", ProofHost)>>],
             TRUE, TRUE, TRUE, TRUE)}

\* What the chat-completions call ends with for one coin:
\*   api_error  response.ok is false
\*   thrown     fetch / response.json() / choices[0].message.content throws
\*   no_span    the text has no '{' ... '}' span
\*   bad_json   JSON.parse of the span throws
\*   object     JSON.parse returns obj
LlmReplies ==
  {[kind |-> k, obj |-> RawObject(EmptyPayload, FALSE, FALSE, FALSE, FALSE)] :
      k \in {"api_error", "thrown", "no_span", "bad_json"}}
  \cup {[kind |-> "object", obj |-> o] : o \in LlmObjects}

\* pages!inner(...) with .eq('pages.status', 'fetched')
FetchedPages(P, c) == {p \in P : p.coin = c /\ p.status = "fetched"}

\* content_text longer than 100 characters and not starting with
\* 'Invalid' / 'Skipped'
ValidPages(P, c) == {p \in FetchedPages(P, c) : p.usable}

ExtractCandidates(C, P) ==
  {c \in CoinsWithStatus(C, "processing") : FetchedPages(P, c) # {}}

\* a stricter reading of the reply: an object without one of the keys
\* on_chain_traction, contradictions, red_flags is treated as unparsable
ExtractOutcomeStrict(P, c, reply) ==
  IF ValidPages(P, c) = {} THEN "no_valid_pages"
  ELSE IF /\ reply.kind = "object"
          /\ ~(reply.obj.hasTraction /\ reply.obj.hasContradictions
                /\ reply.obj.hasRedFlags)
       THEN "bad_json"
  ELSE reply.kind

\* label of what extractFacts did with one selected coin
ExtractOutcome(P, c, reply) ==
  IF ValidPages(P, c) = {} THEN "no_valid_pages" ELSE reply.kind

\* an LLM request is sent unless the coin was dropped at the validPages check
LlmRequested(outcome) == outcome # "no_valid_pages"

ExtractStatus(old, outcome) ==
  CASE outcome = "no_valid_pages" -> "insufficient_data"
    [] outcome = "api_error" -> "failed"
    [] outcome = "thrown" -> "failed"
    [] outcome = "bad_json" -> "retry_pending"
    [] OTHER -> old      \* no_span and object leave the status alone

ExtractInserts(outcome) == outcome \in {"no_span", "object"}

ExtractedRow(outcome, reply) ==
  IF outcome = "no_span" THEN FallbackData ELSE NormalizeExtracted(reply.obj)

\* a delete-then-insert variant of the facts write: the coin's rows are
\* replaced by what the current attempt produced
FactsReplacedByAttempt(rows, inserts, row) ==
  IF inserts THEN <<row>> ELSE <<>>

\* .from('facts').insert({coin_id, extracted, sources}): the only write
\* extractFacts makes to the facts table
FactsAfterAttempt(rows, inserts, row) ==
  IF inserts THEN Append(rows, row) ELSE rows

\* extractFacts in a world where an API key is configured or not (`keys`)
\* and the model answers with one of `replies`
ExtractStage(keys, replies) ==
  /\ pc = "extract"
  /\ \E B \in Batch(ExtractCandidates(coins, pages), ExtractLimit), hasKey \in keys :
       IF B # {} /\ ~hasKey
       THEN \* throw new Error('No API key configured')
            /\ pc' = StageOnThrow("extract")
            /\ response' = "error"
            /\ \E c \in B : probe' = Probe("extract", c, "none", "no_api_key")
            /\ UNCHANGED <<coins, facts>>
       ELSE \E out \in [B -> replies] :
            /\ \A c \in B : ExtractInserts(ExtractOutcome(pages, c, out[c]))
                            => Len(facts[c]) < MaxFacts
            /\ coins' = [id \in CoinIds |->
                           IF id \in B
                           THEN [coins[id] EXCEPT !.status =
                                   ExtractStatus(@, ExtractOutcome(pages, id, out[id]))]
                           ELSE coins[id]]
            /\ facts' = [id \in CoinIds |->
                           IF id \in B
                           THEN FactsAfterAttempt(
                                  facts[id],
                                  ExtractInserts(ExtractOutcome(pages, id, out[id])),
                                  ExtractedRow(ExtractOutcome(pages, id, out[id]), out[id]))
                           ELSE facts[id]]
            /\ \/ /\ B = {}
                  /\ probe' = NoProbe
               \/ \E c \in B :
                    probe' = Probe("extract", c, "none", ExtractOutcome(pages, c, out[c]))
            /\ pc' = StageAfter("extract")
            /\ UNCHANGED response
  /\ UNCHANGED <<pages, scores, deep>>
  /\ call' = NoCall

ExtractFacts == ExtractStage(BOOLEAN, LlmReplies)

(***************************************************************************)
(* Stage 5: calculateScores                                                *)
(***************************************************************************)
ScoreLimit == 5

\* settings.weights_json as the pipeline runs explored here find it
PipelineWeights == {DEFAULT_SCORING_WEIGHTS}

\* facts!inner(extracted)
ScoreCandidates(C, F) == {c \in CoinsWithStatus(C, "processing") : Len(F[c]) > 0}

\* coin.facts[0]: the embedded rows come without ORDER BY, so any of the
\* coin's fact rows can be the first
FirstFactChoices(F, c) == 1..Len(F[c])

ScoreRow(f, w) == calculateCoinScore(f, w)

\* .from('scores').insert({coin_id, overall, ...}): overall is INTEGER NOT
\* NULL; a NaN overall is serialised as null, the store rejects the row and
\* the returned error is not inspected
InsertScore(rows, row) ==
  IF row.overall = NaN THEN rows ELSE Append(rows, row)

\* calculateScores when settings.weights_json is one of `weightMaps`
ScoreStage(weightMaps) ==
  /\ pc = "score"
  /\ \E B \in Batch(ScoreCandidates(coins, facts), ScoreLimit), w \in weightMaps :
       \E pick \in [B -> UNION {FirstFactChoices(facts, c) : c \in B}] :
         /\ \A c \in B : pick[c] \in FirstFactChoices(facts, c)
         /\ \A c \in B : ~ScoreThrows(facts[c][pick[c]]) => Len(scores[c]) < MaxScores
         /\ scores' = [id \in CoinIds |->
                         IF id \in B /\ ~ScoreThrows(facts[id][pick[id]])
                         THEN InsertScore(scores[id], ScoreRow(facts[id][pick[id]], w))
                         ELSE scores[id]]
         /\ coins' = [id \in CoinIds |->
                        IF id \in B /\ ~ScoreThrows(facts[id][pick[id]])
                        THEN [coins[id] EXCEPT !.status = "deep_analysis_pending"]
                        ELSE coins[id]]
         /\ \/ /\ B = {}
               /\ probe' = NoProbe
            \/ \E c \in B :
                 probe' = Probe("score", c, "none",
                                IF ScoreThrows(facts[c][pick[c]]) THEN "thrown" ELSE "scored")
  /\ pc' = StageAfter("score")
  /\ UNCHANGED <<pages, facts, deep, response>>
  /\ call' = NoCall

CalculateScores == ScoreStage(PipelineWeights)

(***************************************************************************)
(* Stage 6: performDeepAnalysis                                            *)
(***************************************************************************)
DeepLimit == 2

\* facts!inner(*), scores!inner(*)
DeepCandidates(C, F, S) ==
  {c \in CoinsWithStatus(C, "deep_analysis_pending") : Len(F[c]) > 0 /\ Len(S[c]) > 0}

\* per coin: the analysis is stored ("ok"), or the call answers non-OK, the
\* reply is not JSON, the insert returns an error, or something else throws
DeepOutcomes == {"ok", "api_error", "bad_json", "insert_error", "thrown"}

\* a fail-closed variant of the status write: a coin whose analysis failed
\* is left for the next run
DeepStatusFailClosed(outcome) ==
  IF outcome = "ok" THEN "analyzed" ELSE "deep_analysis_pending"

\* the status written at the end of the try block and in the catch block
DeepStatus(outcome) == "analyzed"

\* a deep_analysis row exists afterwards only when the insert was reached
\* and returned no error
DeepInserts(outcome) == outcome = "ok"

\* performDeepAnalysis in a world where an API key is configured or not
\* (`keys`), the select fails or not (`selectErrors`) and each coin's
\* analysis ends with one of `outcomes`
DeepStage(keys, selectErrors, outcomes) ==
  /\ pc = "deep"
  /\ \E hasKey \in keys, selectError \in selectErrors :
       IF ~hasKey \/ selectError
       THEN /\ probe' = NoProbe
            /\ UNCHANGED <<coins, deep>>
       ELSE \E B \in Batch(DeepCandidates(coins, facts, scores), DeepLimit) :
              \E out \in [B -> outcomes] :
                /\ \A c \in B : DeepInserts(out[c]) => deep[c] < MaxDeep
                /\ deep' = [id \in CoinIds |->
                              IF id \in B /\ DeepInserts(out[id])
                              THEN deep[id] + 1 ELSE deep[id]]
                /\ coins' = [id \in CoinIds |->
                               IF id \in B
                               THEN [coins[id] EXCEPT !.status = DeepStatus(out[id])]
                               ELSE coins[id]]
                /\ \/ /\ B = {}
                      /\ probe' = NoProbe
                   \/ \E c \in B : probe' = Probe("deep", c, "none", out[c])
  /\ pc' = StageAfter("deep")
  /\ response' = "success"
  /\ UNCHANGED <<pages, facts, scores>>
  /\ call' = NoCall

PerformDeepAnalysis == DeepStage(BOOLEAN, BOOLEAN, DeepOutcomes)

(***************************************************************************)
(* Specification                                                           *)
(***************************************************************************)
Next ==
  \/ ResetAllStuckRequest
  \/ ResetCoinRequest
  \/ StandardRunRequest
  \/ ManualRunRequest
  \/ ResolveOfficialLinks
  \/ HandleRetries
  \/ FetchPages
  \/ ExtractFacts
  \/ CalculateScores
  \/ PerformDeepAnalysis

Spec == Init /\ [][Next]_vars

TypeOK ==
  /\ \A id \in CoinIds : coins[id].status \in CoinStatuses \cup {"absent"}
  /\ \A p \in pages : p.status \in PageStatuses
  /\ pc \in {"idle", "resolve", "retries", "fetch", "extract", "score", "deep"}

(***************************************************************************)
(* Repeated standard runs in a world where every external call succeeds:   *)
(* discovery lists only detail URLs not yet in the table, every detail     *)
(* page resolves, every link passes the domain filter and answers with a   *)
(* document (HTML text or a PDF), the model returns a well-formed object   *)
(* whose claims carry proof URLs, and the deep analysis is stored.  The    *)
(* caller keeps issuing runs and a run executes its stages one after the   *)
(* other, hence weak fairness of the step relation.                        *)
(***************************************************************************)
LiveListings == {L \in SUBSET CoinUrls : \A u \in L : IdsWithUrl(coins, u) = {}}

LiveReply ==
  [kind |-> "object",
   obj |-> RawObject([EmptyPayload EXCEPT
                        !.claims = <<Claim("team", "doxxed_team", "yes", ProofHost)>>],
                     TRUE, TRUE, TRUE, TRUE)]

LiveStandardRun == StandardRun({FALSE}, LiveListings)

LiveResolve == ResolveStage({[ok |-> TRUE, links |-> L] : L \in SUBSET LinkUrls})

LiveFetch == FetchStage({"pdf_detected", "fetched_long"}, {LinkUrls})

LiveExtract == ExtractStage({TRUE}, {LiveReply})

LiveDeep == DeepStage({TRUE}, {FALSE}, {"ok"})

LiveNext ==
  \/ LiveStandardRun
  \/ LiveResolve
  \/ HandleRetries
  \/ LiveFetch
  \/ LiveExtract
  \/ CalculateScores
  \/ LiveDeep

SpecLive == Init /\ [][LiveNext]_vars /\ WF_vars(LiveNext)

(***************************************************************************)
(* The scorer on its own: calculateCoinScore applied to a payload and a    *)
(* weight map, twice, with the clock moving and the first result stored    *)
(* in between.                                                             *)
(***************************************************************************)
MaxClock == 1

\* claims lists of the payloads scored here
NoClaims == <<>>

OneDoxxedClaim == <<Claim("team", "doxxed_team", "yes", {"site.example"})>>

\* one audit claim without proof and one risk_language claim: security
\* sub-score 60 - 30 = 30
RiskyAuditClaims ==
  <<Claim("security", "audit", "other", {}),
    Claim("security", "risk_language", "other", {"site.example"})>>

\* claims that give every claims-based sub-score its maximum of 100
\* (traction also needs on_chain_traction partners and integrations)
MaxedClaims ==
  <<Claim("security", "audit", "other", {"audit.example"}),
    Claim("security", "audit", "other", {"site.example"}),
    Claim("security", "legal", "other", {"site.example"}),
    Claim("tokenomics", "supply", "other", {"docs.example"}),
    Claim("tokenomics", "vesting", "other", {"docs.example"}),
    Claim("team", "doxxed_team", "yes", {"site.example"}),
    Claim("team", "advisor", "other", {}),
    Claim("product", "mvp", "yes", {"site.example"}),
    Claim("product", "roadmap_date", "other", {"site.example"}),
    Claim("product", "roadmap_date", "other", {"site.example"}),
    Claim("product", "roadmap_date", "other", {"site.example"}),
    Claim("traction", "partner", "other", {"site.example"}),
    Claim("traction", "integration", "other", {"site.example"}),
    Claim("market", "competitor", "other", {"site.example"}),
    Claim("market", "narrative", "other", {}),
    Claim("community", "channel", "other", {"site.example"}),
    Claim("community", "channel", "other", {"site.example"}),
    Claim("community", "channel", "other", {"site.example"}),
    Claim("community", "size", "other", {})>>

\* a doxxed_team claim whose value is a JSON boolean
NonStringClaim == <<Claim("team", "doxxed_team", "nonstring", {"site.example"})>>

ScoreClaims ==
  {NoClaims, OneDoxxedClaim, RiskyAuditClaims, MaxedClaims, NonStringClaim}

\* red_flags.guaranteed_returns, each phrase by its wording class
ScorePhrases ==
  {<<>>, <<"severe">>, <<"medium">>, <<"other">>, <<"severe", "medium">>}

\* on_chain_traction: (partners, infra/exchange integrations)
ScoreTraction == {<<0, 0>>, <<4, 4>>}

ScorePayloads ==
  {Payload(cl, tr[1], tr[2], 0, co, ph, au, cc, mi) :
     cl \in ScoreClaims, tr \in ScoreTraction, co \in {0, 1}, ph \in ScorePhrases,
     au \in BOOLEAN, cc \in BOOLEAN, mi \in {0, 1}}

\* team_transparency = 20, every other weight 0
TeamOnlyWeights ==
  [security_rug_pull |-> 0, tokenomics |-> 0, team_transparency |-> 20,
   product_roadmap |-> 0, onchain_traction |-> 0, market_narrative |-> 0,
   community |-> 0]

\* the weights_json the first migration gives the settings row: its market
\* key is market_narrative_fit, so it has no key market_narrative
SeededWeights ==
  [security_rug_pull |-> 15, tokenomics |-> 10, team_transparency |-> 20,
   product_roadmap |-> 20, onchain_traction |-> 10, market_narrative_fit |-> 15,
   community |-> 10]

\* weight maps as the settings form can store them (any integers)
ScoreWeights ==
  {DEFAULT_SCORING_WEIGHTS, TeamOnlyWeights, SeededWeights,
   [p \in PillarNames |-> 100], [p \in PillarNames |-> 0 - 10]}

\* what a call of calculateCoinScore ends with
NotCalled == [kind |-> "none"]

Scored(f, w) ==
  IF ScoreThrows(f) THEN [kind |-> "thrown"]
  ELSE [kind |-> "returned", value |-> calculateCoinScore(f, w)]

ScoreInit ==
  /\ coins = [id \in CoinIds |-> AbsentCoin]
  /\ pages = {}
  /\ facts = [id \in CoinIds |-> <<>>]
  /\ scores = [id \in CoinIds |-> <<>>]
  /\ deep = [id \in CoinIds |-> 0]
  /\ pc = "idle"
  /\ response = "none"
  /\ probe = NoProbe
  /\ call \in {[op |-> "score", facts |-> f, weights |-> w, now |-> 0, calls |-> 0,
                first |-> NotCalled, second |-> NotCalled] :
                 f \in ScorePayloads, w \in ScoreWeights}

\* first call
ScoreCall ==
  /\ call.op = "score"
  /\ call.calls = 0
  /\ call' = [call EXCEPT !.calls = 1, !.first = Scored(call.facts, call.weights)]
  /\ UNCHANGED <<coins, pages, facts, scores, deep, pc, response, probe>>

\* between the calls time passes and the first result may be stored as a
\* score row, as calculateScores does
BetweenCalls ==
  /\ call.op = "score"
  /\ call.calls = 1
  /\ call.now < MaxClock
  /\ call' = [call EXCEPT !.now = @ + 1]
  /\ \E store \in BOOLEAN :
       scores' = IF store /\ call.first.kind = "returned"
                 THEN [scores EXCEPT ![1] = Append(@, call.first.value)]
                 ELSE scores
  /\ UNCHANGED <<coins, pages, facts, deep, pc, response, probe>>

\* second call with the same arguments
ScoreCallAgain ==
  /\ call.op = "score"
  /\ call.calls = 1
  /\ call' = [call EXCEPT !.calls = 2, !.second = Scored(call.facts, call.weights)]
  /\ UNCHANGED <<coins, pages, facts, scores, deep, pc, response, probe>>

ScoreNext ==
  \/ ScoreCall
  \/ BetweenCalls
  \/ ScoreCallAgain

SpecScore == ScoreInit /\ [][ScoreNext]_vars

(***************************************************************************)
(* Properties                                                              *)
(***************************************************************************)
TerminalStatuses == {"analyzed", "failed", "insufficient_data"}

StagePcs == {"resolve", "retries", "fetch", "extract", "score", "deep"}

\* a step of reset_coin_id or reset_all_stuck
IsResetStep == pc = "idle" /\ response' \in {"coin_reset", "all_coins_reset"}

\* the rows of the transition table of section 4.8 that change the status
TransitionTable ==
  {<<"absent", "pending">>,
   <<"pending", "processing">>,
   <<"processing", "insufficient_data">>,
   <<"processing", "retry_pending">>,
   <<"processing", "failed">>,
   <<"processing", "deep_analysis_pending">>,
   <<"deep_analysis_pending", "analyzed">>,
   <<"retry_pending", "processing">>,
   <<"retry_pending", "pending">>,
   <<"retry_pending", "failed">>,
   <<"processing", "pending">>}

\* "insufficient_data (terminal unless reset)": the pair a reset may add
ResetTable == {<<"insufficient_data", "pending">>}

\* C1: every step of every request (standard run, manual_url run,
\* reset_coin_id, reset_all_stuck) that changes a coin's status changes it
\* along a row of the transition table, and no step takes a coin from
\* pending to analyzed.
StatusWritesFollowTable ==
  [][\A id \in CoinIds :
       coins'[id].status # coins[id].status
         => /\ \/ <<coins[id].status, coins'[id].status>> \in TransitionTable
               \/ /\ IsResetStep
                  /\ <<coins[id].status, coins'[id].status>> \in ResetTable
            /\ ~(coins[id].status = "pending" /\ coins'[id].status = "analyzed")
  ]_vars

\* C2: when the reply for a selected coin has no {...} span or its span
\* does not parse, extractFacts leaves the coin in retry_pending and adds no
\* fact row for it.
UnparsableReplyFailsClosed ==
  [][(pc = "extract" /\ probe'.stage = "extract"
        /\ probe'.outcome \in {"no_span", "bad_json"})
       => /\ coins'[probe'.coin].status = "retry_pending"
          /\ facts'[probe'.coin] = facts[probe'.coin]
  ]_vars

\* C3: every coin selected by performDeepAnalysis is in status analyzed
\* after the stage, whatever the outcome of its analysis, and the number of
\* its deep_analysis rows grows (by one) exactly when the analysis was
\* stored; no other coin gets a row.
DeepAlwaysCompletes ==
  [][pc = "deep"
       => /\ probe'.stage = "deep"
               => /\ coins'[probe'.coin].status = "analyzed"
                  /\ deep'[probe'.coin] =
                       deep[probe'.coin] + (IF probe'.outcome = "ok" THEN 1 ELSE 0)
          /\ \A id \in CoinIds :
               /\ deep'[id] # deep[id] => coins[id].status = "deep_analysis_pending"
               /\ coins[id].status = "deep_analysis_pending"
                    => coins'[id].status \in {"deep_analysis_pending", "analyzed"}
  ]_vars

\* a coin whose deep analysis could not be stored is analyzed, without a row
DeepFailureCompleted ==
  /\ probe.stage = "deep"
  /\ probe.outcome \in {"api_error", "bad_json", "insert_error", "thrown"}
  /\ coins[probe.coin].status = "analyzed"
  /\ deep[probe.coin] = 0

StatusRank(st) ==
  CASE st = "pending" -> 0
    [] st = "processing" -> 1
    [] st = "deep_analysis_pending" -> 2
    [] st = "analyzed" -> 3
    [] OTHER -> 0 - 1

TerminalCoinsUntouched ==
  [][(pc \in StagePcs)
       => \A id \in CoinIds :
            coins[id].status \in TerminalStatuses
              => /\ coins'[id] = coins[id]
                 /\ probe'.coin # id
                 /\ {p \in pages' : p.coin = id} = {p \in pages : p.coin = id}
                 /\ facts'[id] = facts[id]
                 /\ scores'[id] = scores[id]
                 /\ deep'[id] = deep[id]
  ]_vars

\* fetchPages has just worked on one coin while another one was analyzed
StageRanBesideTerminalCoin ==
  /\ probe.stage = "fetch"
  /\ \E id \in CoinIds :
       /\ id # probe.coin
       /\ coins[id].status = "analyzed"

\* C6: every claim of every stored fact row has at least one proof URL.
StoredClaimsHaveProof ==
  \A id \in CoinIds :
    \A i \in 1..Len(facts[id]) :
      \A j \in 1..Len(facts[id][i].claims) :
        facts[id][i].claims[j].proof # {}

\* C7: after extractFacts every coin that was in processing with no usable
\* fetched page is in insufficient_data, and no LLM request was sent for it.
NoUsablePageMeansInsufficient ==
  [][(pc = "extract" /\ pc' = "score")
       => \A id \in CoinIds :
            (coins[id].status = "processing"
               /\ \A p \in pages : (p.coin = id /\ p.status = "fetched") => ~p.usable)
              => /\ coins'[id].status = "insufficient_data"
                 /\ probe'.coin = id => ~LlmRequested(probe'.outcome)
  ]_vars

\* C8: every coin selected by calculateScores is in deep_analysis_pending
\* after the stage, and the stage writes none of failed, retry_pending,
\* insufficient_data.
ScoredCoinsAdvance ==
  [][pc = "score"
       => /\ probe'.stage = "score"
               => coins'[probe'.coin].status = "deep_analysis_pending"
          /\ \A id \in CoinIds :
               coins'[id].status # coins[id].status
                 => coins'[id].status
                      \notin {"failed", "retry_pending", "insufficient_data"}
  ]_vars

\* C9: under repeated standard runs whose external calls all succeed, every
\* coin that exists eventually is in analyzed, failed or insufficient_data.
EveryCoinSettles ==
  \A id \in CoinIds :
    Exists(coins, id) ~> (coins[id].status \in TerminalStatuses)

\* C10: a (coin, url) pair has at most one page row, and after fetchPages
\* has fetched a pair its row carries the status of that fetch.
PageRowIsLatestFetch ==
  /\ \A p, q \in pages : (p.coin = q.coin /\ p.url = q.url) => p = q
  /\ (pc = "extract" /\ probe.stage = "fetch")
       => \E p \in pages :
            /\ p.coin = probe.coin
            /\ p.url = probe.url
            /\ p.status = OutcomeStatus(probe.outcome)
            /\ p.usable = (probe.outcome = "fetched_long")

IsPrefixOf(s, t) == Len(s) <= Len(t) /\ SubSeq(t, 1, Len(s)) = s

StagePosition ==
  [s \in {"idle", "resolve", "retries", "fetch", "extract", "score", "deep"} |->
     CASE s = "idle"    -> 1
       [] s = "resolve" -> 2
       [] s = "retries" -> 3
       [] s = "fetch"   -> 4
       [] s = "extract" -> 5
       [] s = "score"   -> 6
       [] s = "deep"    -> 7]

\* C12: within one request the stages run in the order discovery or manual
\* ingestion, link resolution, retry handling, page fetching, fact
\* extraction, score calculation, deep analysis: every step either ends the
\* request or hands over to the stage one place further in that order, and
\* the work done by a step is that of the stage whose turn it is.
StagesRunInFixedOrder ==
  [][/\ (pc' = "idle" \/ StagePosition[pc'] = StagePosition[pc] + 1)
     /\ ((pc \in StagePcs) => probe'.stage \in {pc, "none"})
     /\ ((pc = "idle") => probe'.stage = "none")
  ]_vars

\* a run has gone through to its last stage, which analysed a coin, and
\* has answered with success
FullRunCompleted ==
  /\ pc = "idle"
  /\ response = "success"
  /\ probe.stage = "deep"

\* the result of the first call, when it has returned
Returned == call.op = "score" /\ call.first.kind = "returned"

\* C13: whatever the payload and the weight map, a returned score has
\* 0 <= overall <= 100 and 0 <= confidence <= 1, and overall <= overall_cap
\* when a cap is set.
ScoreWithinBounds ==
  Returned =>
    LET r == call.first.value
    IN /\ r.overall # NaN
       /\ 0 <= r.overall /\ r.overall <= 100
       /\ 0 <= r.confidence /\ r.confidence <= 100
       /\ (r.overall_cap # NoCap => r.overall <= r.overall_cap)

\* facts.contradictions or red_flags.misleading_claims is non-empty
CapCondition(f) == f.contradictions > 0 \/ f.misleading > 0

\* C14: with a contradiction or a misleading claim the returned overall_cap
\* is 20 and overall is max(0, min(20, base + penalties)), hence at most 20,
\* base being the sum of the returned pillar entries; without either,
\* overall_cap is null.
CapAtTwenty ==
  Returned =>
    LET f == call.facts
        r == call.first.value
        base100 == BaseScore100(r.pillars)
    IN IF CapCondition(f)
       THEN /\ r.overall_cap = 20
            /\ r.overall # NaN
            /\ base100 # NaN
            /\ 100 * r.overall = Clamp(0, 2000, base100 - 100 * r.penalties)
            /\ r.overall <= 20
       ELSE r.overall_cap = NoCap

\* claim.pillar value whose claims feed the pillar stored under key p
ClaimPillarOf ==
  [security_rug_pull |-> "security", tokenomics |-> "tokenomics",
   team_transparency |-> "team", product_roadmap |-> "product",
   onchain_traction |-> "traction", market_narrative |-> "market",
   community |-> "community"]

\* C15: each of the seven pillars that has no claim in the payload gets
\* sub-score 0 and its entry in the returned pillars map is 0.
PillarWithoutClaimsScoresZero ==
  Returned =>
    \A p \in PillarNames :
      ClaimsOfPillar(call.facts, ClaimPillarOf[p]) = <<>>
        => /\ SubScores(call.facts)[p] = 0
           /\ call.first.value.pillars[p] = 0

\* the guaranteed-returns penalty as one amount chosen by the wording found:
\* 15 for 'guaranteed' / '100%', else 10 for 'risk-free' / 'safe', else 5
StatedGuaranteePenalty(phrases) ==
  IF phrases = <<>> THEN 0
  ELSE IF \E i \in 1..Len(phrases) : phrases[i] = "severe" THEN 15
  ELSE IF \E i \in 1..Len(phrases) : phrases[i] = "medium" THEN 10
  ELSE 5

\* pillar contributions summing to 100 and 'guaranteed 100% profit' as the
\* only red flag
GuaranteedProfitScenario ==
  /\ Returned
  /\ BaseScore100(call.first.value.pillars) = 10000
  /\ call.facts.guaranteed = <<"severe">>
  /\ ~call.facts.audit_no_source
  /\ ~call.facts.copycat
  /\ ~CapCondition(call.facts)

RECURSIVE StatedPenaltyPerPhrase(_)
StatedPenaltyPerPhrase(phrases) ==
  IF phrases = <<>> THEN 0
  ELSE StatedGuaranteePenalty(<<Head(phrases)>>) + StatedPenaltyPerPhrase(Tail(phrases))

DoxxedTeamScenario ==
  /\ Returned
  /\ call.facts = Payload(OneDoxxedClaim, 0, 0, 0, 0, <<>>, FALSE, FALSE, 0)
  /\ call.weights = TeamOnlyWeights

\* C17: every entry of the returned pillars map is (sub-score / 100) times
\* the weight configured for that pillar, the score before penalties is the
\* sum of the entries, and in the scenario of one doxxed_team claim with
\* weight 20 on team_transparency only, pillars.team_transparency = 14,
\* overall = 14 and red_flags is empty.
PillarsAreWeightedSubScores ==
  Returned =>
    LET f == call.facts
        w == call.weights
        r == call.first.value
        entries == SumOver(r.pillars, PillarNames) - 100 * r.penalties
        capped == IF r.overall_cap # NoCap THEN Min(100 * r.overall_cap, entries)
                  ELSE entries
    IN /\ \A p \in PillarNames :
            /\ p \in DOMAIN w
            /\ r.pillars[p] = SubScores(f)[p] * w[p]
       /\ r.overall = Round100(Clamp(0, 10000, capped))
       /\ DoxxedTeamScenario
            => /\ r.pillars.team_transparency = 1400
               /\ r.overall = 14
               /\ r.red_flags = <<>>

PagesOf(P, id) == {p \in P : p.coin = id}

\* C19: a reset_all_stuck request resets exactly the coins that are in
\* processing or retry_pending and whose updated_at is more than an hour
\* old: their status becomes pending and their pages, facts and scores are
\* gone; every other coin, with its pages, facts and scores, and every
\* deep_analysis row stay as they were.
ResetAllTouchesExactlyStuckCoins ==
  [][(call'.op = "reset_all")
       => \A id \in CoinIds :
            IF coins[id].status \in {"processing", "retry_pending"} /\ id \in call'.stale
            THEN /\ coins'[id] = [coins[id] EXCEPT !.status = "pending"]
                 /\ PagesOf(pages', id) = {}
                 /\ facts'[id] = <<>>
                 /\ scores'[id] = <<>>
            ELSE /\ coins'[id] = coins[id]
                 /\ PagesOf(pages', id) = PagesOf(pages, id)
                 /\ facts'[id] = facts[id]
                 /\ scores'[id] = scores[id]
  ]_vars

\* a sweep has reset one coin while another coin, in processing but updated
\* within the hour, has kept its pages
SweepSparedFreshCoin ==
  /\ call.op = "reset_all"
  /\ call.selected # {}
  /\ \E id \in CoinIds \ call.stale :
       /\ coins[id].status = "processing"
       /\ PagesOf(pages, id) # {}

\* C20: the second of two reset requests in succession, both
\* reset_all_stuck or both reset_coin_id for the same coin, changes no coin
\* status and no pages, facts or scores row.  Two sweeps count as the same
\* operation when they work with the same cutoff: apart from the coins the
\* first sweep reset, the second finds the same coins more than one hour old.
SecondResetChangesNothing ==
  [][(\/ /\ call.op = "reset_all" /\ call'.op = "reset_all"
         /\ call'.stale \ call.selected = call.stale \ call.selected
      \/ call.op = "reset_coin" /\ call'.op = "reset_coin" /\ call'.id = call.id)
       => UNCHANGED <<coins, pages, facts, scores>>
  ]_vars

\* reset_coin_id has been requested twice in succession for a coin that is
\* now pending and still has the links resolved before the first reset
SameCoinResetTwice ==
  /\ call.op = "reset_coin"
  /\ call.repeated
  /\ coins[call.id].status = "pending"
  /\ coins[call.id].links # {}

\* C21: a step in which a stage throws answers with the error response,
\* ends the request (no later stage of that request runs) and leaves every
\* row as the earlier stages of the request wrote it.
ThrowEndsRunKeepsRows ==
  [][(response' = "error")
       => /\ pc' = "idle"
          /\ UNCHANGED <<coins, pages, facts, scores, deep>>
  ]_vars

\* extractFacts has thrown 'No API key configured' on a coin whose page the
\* fetch stage of the same request had stored; the coin is still in
\* processing and the page is still there
NoKeyAfterFetch ==
  /\ response = "error"
  /\ pc = "idle"
  /\ probe.stage = "extract"
  /\ probe.outcome = "no_api_key"
  /\ coins[probe.coin].status = "processing"
  /\ FetchedPages(pages, probe.coin) # {}

\* C22: when fetchPages has finished, the URL it attempted has a page row
\* whose status records the outcome of that attempt.
AttemptedUrlHasOutcomeRow ==
  (pc = "extract" /\ probe.stage = "fetch")
    => \E p \in pages :
         /\ p.coin = probe.coin
         /\ p.url = probe.url
         /\ p.status = OutcomeStatus(probe.outcome)

\* ---------------------------------------------------------------------
\* parseOfficialLinks as a function of what the page contains
\* ---------------------------------------------------------------------

\* A URL is its host, the extension of its path and whether the path is
\* that of a single social-media post; the empty host stands for a string
\* that new URL() cannot parse.
NoUrl == [host |-> "none", ext |-> "", post |-> FALSE]

excludedExtensions ==
  {".jpg", ".jpeg", ".png", ".gif", ".svg", ".ico", ".webp",
   ".mp4", ".mp3", ".pdf", ".zip"}

\* the modelled hosts that contain one of the excludedDomains
excludedHosts == {"ads.example.com"}

isValidContentUrl(u) ==
  /\ u.host # ""
  /\ u.ext \notin excludedExtensions
  /\ ~u.post
  /\ u.host \notin excludedHosts

NoLinks == [t \in {} |-> NoUrl]

\* Object.assign(target, source): every key of source replaces the key of
\* the same name in target
ObjectAssign(target, source) ==
  [t \in (DOMAIN target) \cup (DOMAIN source) |->
     IF t \in DOMAIN source THEN source[t] ELSE target[t]]

\* A page is the first href each link pattern matches (anchors), the url
\* members of its JSON-LD scripts in document order (jsonld), and the first
\* og:url and canonical values (NoUrl when the page has none).
extractStructuredLinks(html) ==
  LET valid == {i \in 1..Len(html.jsonld) : isValidContentUrl(html.jsonld[i])}
      last == CHOOSE i \in valid : \A j \in valid : j <= i
      fromJsonLd == IF valid = {} THEN NoLinks
                    ELSE [t \in {"website"} |-> html.jsonld[last]]
      fromOg == IF /\ html.og # NoUrl
                   /\ isValidContentUrl(html.og)
                   /\ "website" \notin DOMAIN fromJsonLd
                THEN [t \in {"website"} |-> html.og]
                ELSE fromJsonLd
  IN IF /\ html.canonical # NoUrl
        /\ isValidContentUrl(html.canonical)
        /\ "website" \notin DOMAIN fromOg
     THEN [t \in {"website"} |-> html.canonical]
     ELSE fromOg

parseOfficialLinks(html) ==
  LET matched == {t \in DOMAIN html.anchors : isValidContentUrl(html.anchors[t])}
      links == [t \in matched |-> html.anchors[t]]
  IN ObjectAssign(links, extractStructuredLinks(html))

\* the pages explored
ProjectSite == [host |-> "project.io", ext |-> "", post |-> FALSE]
ListingPage == [host |-> "coingecko.com", ext |-> "", post |-> FALSE]
DocsSite == [host |-> "docs.project.io", ext |-> "", post |-> FALSE]
LogoImage == [host |-> "project.io", ext |-> ".png", post |-> FALSE]
StatusPost == [host |-> "x.com", ext |-> "", post |-> TRUE]
AdLink == [host |-> "ads.example.com", ext |-> "", post |-> FALSE]

MaxScripts == 2

\* of the five linkPatterns types the explored pages use website and docs
PageAnchors ==
  UNION {[T -> {ProjectSite, LogoImage, AdLink}] : T \in SUBSET {"website", "docs"}}

PageJsonLd ==
  UNION {[1..n -> {ListingPage, LogoImage}] : n \in 0..MaxScripts}

LinkPages ==
  {[anchors |-> a, jsonld |-> j, og |-> o, canonical |-> k] :
     a \in PageAnchors, j \in PageJsonLd,
     o \in {NoUrl, DocsSite, StatusPost}, k \in {NoUrl, ListingPage}}

LinksInit ==
  /\ coins = [id \in CoinIds |-> AbsentCoin]
  /\ pages = {}
  /\ facts = [id \in CoinIds |-> <<>>]
  /\ scores = [id \in CoinIds |-> <<>>]
  /\ deep = [id \in CoinIds |-> 0]
  /\ pc = "idle"
  /\ response = "none"
  /\ probe = NoProbe
  /\ call \in {[op |-> "parse", html |-> h, done |-> FALSE, links |-> NoLinks] :
                 h \in LinkPages}

ParseCall ==
  /\ call.op = "parse"
  /\ ~call.done
  /\ call' = [call EXCEPT !.done = TRUE, !.links = parseOfficialLinks(call.html)]
  /\ UNCHANGED <<coins, pages, facts, scores, deep, pc, response, probe>>

LinksNext == ParseCall

SpecLinks == LinksInit /\ [][LinksNext]_vars

\* C23: a link that pattern matching found is in the result of
\* parseOfficialLinks under its type, whatever the structured data of the
\* page yields for that type.
PatternLinkNotOverwritten ==
  (call.op = "parse" /\ call.done)
    => \A t \in DOMAIN call.html.anchors :
         isValidContentUrl(call.html.anchors[t])
           => /\ t \in DOMAIN call.links
              /\ call.links[t] = call.html.anchors[t]

\* ---------------------------------------------------------------------
\* manual submissions
\* ---------------------------------------------------------------------

DetailUrlsDistinct(C) ==
  \A i, j \in CoinIds :
    (Exists(C, i) /\ Exists(C, j) /\ C[i].url = C[j].url) => i = j

\* C24 as stated: no two coins ever share a detail URL, and every
\* submission of a URL that already belongs to a coin leaves the coins as
\* they were and goes on to the remaining stages.
DuplicateSubmissionAlwaysContinues ==
  [][/\ DetailUrlsDistinct(coins')
     /\ (call'.op = "manual" /\ pc = "idle" /\ call'.existing)
          => /\ coins' = coins
             /\ pc' = "resolve"
             /\ response' # "error"
  ]_vars

\* C24: no two coins ever share a detail URL; a submission of a URL that
\* already belongs to a coin leaves the coins as they were, and goes on to
\* the remaining stages when the detail page answered the request made
\* before the lookup (it ends with the error response when it did not).
DuplicateSubmissionLeavesCoin ==
  [][/\ DetailUrlsDistinct(coins')
     /\ (call'.op = "manual" /\ pc = "idle" /\ call'.existing)
          => /\ coins' = coins
             /\ call'.answered => (pc' = "resolve" /\ response' # "error")
             /\ ~call'.answered => (pc' = "idle" /\ response' = "error")
  ]_vars

DuplicateOfProcessedCoinSubmitted ==
  /\ call.op = "manual"
  /\ call.existing
  /\ call.answered
  /\ pc = "resolve"
  /\ \E id \in CoinIds : coins[id].url = call.url /\ coins[id].status = "analyzed"
  /\ \E id \in CoinIds : Exists(coins, id) /\ coins[id].url # call.url

\* C25: a submission whose URL has not the detail-page shape ends with the
\* error response without a network request having been sent, writes no
\* row and runs no stage.
MalformedUrlRejectedBeforeFetch ==
  [][(call'.op = "manual" /\ pc = "idle" /\ ~call'.shape)
       => /\ response' = "error"
          /\ call'.fetches = 0
          /\ pc' = "idle"
          /\ probe'.stage = "none"
          /\ UNCHANGED <<coins, pages, facts, scores, deep>>
  ]_vars

MalformedUrlSubmittedBesideCoins ==
  /\ call.op = "manual"
  /\ ~call.shape
  /\ response = "error"
  /\ pc = "idle"
  /\ \E id \in CoinIds : coins[id].status = "processing"

\* ---------------------------------------------------------------------
\* Two requests executing at once: extractFacts and calculateScores of
\* each run, every await a point where the other run can take a step
\* ---------------------------------------------------------------------

MaxRuns == 2

Runs == 1..MaxRuns

\* the replies the chat-completions call gives in the explored races
RaceReplies == {r \in LlmReplies : r.kind \in {"object", "bad_json"}}

RaceRun(at, todo, snap) == [at |-> at, todo |-> todo, snap |-> snap]

NoSnap == [c \in {} |-> FallbackData]

WriteAppliesIfProcessing(current) == current = "processing"

\* .update({status}).eq('id', coin.id) and .insert({coin_id, ...}): no
\* condition on the status the coin has when the write arrives
WriteApplies(current) == TRUE

\* both runs are about to select; every coin is absent or in processing
\* with one fetched page of usable content and no fact record yet
RaceInit ==
  /\ \E present \in (SUBSET CoinIds) \ {{}} :
       /\ coins = [id \in CoinIds |->
                     IF id \in present
                     THEN [status |-> "processing", url |-> "cg/a", links |-> LinkUrls]
                     ELSE AbsentCoin]
       /\ pages = {PageRow(id, u, "fetched_long") : id \in present, u \in LinkUrls}
  /\ facts = [id \in CoinIds |-> <<>>]
  /\ scores = [id \in CoinIds |-> <<>>]
  /\ deep = [id \in CoinIds |-> 0]
  /\ pc = "idle"
  /\ response = "none"
  /\ probe = NoProbe
  /\ call = [op |-> "race", runs |-> [r \in Runs |-> RaceRun("extract_select", {}, NoSnap)]]

RaceStep(r, run) ==
  call' = [call EXCEPT !.runs[r] = run]

\* extractFacts: the select by status
RaceSelectExtract(r) ==
  /\ call.runs[r].at = "extract_select"
  /\ \E B \in Batch(ExtractCandidates(coins, pages), ExtractLimit) :
       RaceStep(r, RaceRun("extract_loop", B, NoSnap))
  /\ probe' = NoProbe
  /\ UNCHANGED <<coins, pages, facts, scores, deep, pc, response>>

\* extractFacts: one coin of the batch
RaceExtractCoin(r) ==
  /\ call.runs[r].at = "extract_loop"
  /\ \E c \in call.runs[r].todo, reply \in RaceReplies :
       LET outcome == ExtractOutcome(pages, c, reply)
       IN /\ facts' = [facts EXCEPT ![c] =
                         IF WriteApplies(coins[c].status)
                         THEN FactsAfterAttempt(@, ExtractInserts(outcome),
                                                ExtractedRow(outcome, reply))
                         ELSE @]
          /\ coins' = [coins EXCEPT ![c].status =
                         IF WriteApplies(@) THEN ExtractStatus(@, outcome) ELSE @]
          /\ probe' = Probe("extract", c, "none", outcome)
          /\ RaceStep(r, RaceRun("extract_loop", call.runs[r].todo \ {c}, NoSnap))
  /\ UNCHANGED <<pages, scores, deep, pc, response>>

\* calculateScores: the select by status, embedding the coins' fact rows
RaceSelectScore(r) ==
  /\ call.runs[r].at = "extract_loop"
  /\ call.runs[r].todo = {}
  /\ \E B \in Batch(ScoreCandidates(coins, facts), ScoreLimit) :
       \E pick \in [B -> 1..MaxRuns] :
         /\ \A c \in B : pick[c] \in FirstFactChoices(facts, c)
         /\ RaceStep(r, RaceRun("score_loop", B, [c \in B |-> facts[c][pick[c]]]))
  /\ probe' = NoProbe
  /\ UNCHANGED <<coins, pages, facts, scores, deep, pc, response>>

\* calculateScores: one coin of the batch
RaceScoreCoin(r) ==
  /\ call.runs[r].at = "score_loop"
  /\ \E c \in call.runs[r].todo, w \in PipelineWeights :
       LET f == call.runs[r].snap[c]
           writes == ~ScoreThrows(f) /\ WriteApplies(coins[c].status)
       IN /\ scores' = [scores EXCEPT ![c] =
                          IF writes THEN Append(@, ScoreRow(f, w)) ELSE @]
          /\ coins' = [coins EXCEPT ![c].status =
                         IF writes THEN "deep_analysis_pending" ELSE @]
          /\ probe' = Probe("score", c, "none",
                            IF ScoreThrows(f) THEN "thrown" ELSE "scored")
          /\ RaceStep(r, RaceRun("score_loop", call.runs[r].todo \ {c},
                                 call.runs[r].snap))
  /\ UNCHANGED <<pages, facts, deep, pc, response>>

RaceScoreDone(r) ==
  /\ call.runs[r].at = "score_loop"
  /\ call.runs[r].todo = {}
  /\ RaceStep(r, RaceRun("done", {}, NoSnap))
  /\ probe' = NoProbe
  /\ UNCHANGED <<coins, pages, facts, scores, deep, pc, response>>

RaceNext ==
  \E r \in Runs :
    \/ RaceSelectExtract(r)
    \/ RaceExtractCoin(r)
    \/ RaceSelectScore(r)
    \/ RaceScoreCoin(r)
    \/ RaceScoreDone(r)

SpecRace == RaceInit /\ [][RaceNext]_vars

\* C26: a run processes every coin it selected whatever the coin's status
\* has become since the select: its extract step adds a fact record when the
\* reply can be stored, and its score step adds a score record and writes
\* deep_analysis_pending, also when another run has already done the same.
SelectedCoinProcessedRegardless ==
  [][\A r \in Runs, c \in CoinIds :
       (call.op = "race" /\ c \in call.runs[r].todo /\ c \notin call'.runs[r].todo)
         => \/ /\ call.runs[r].at = "extract_loop"
               /\ probe'.outcome = "object"
               /\ Len(facts'[c]) = Len(facts[c]) + 1
            \/ /\ call.runs[r].at = "extract_loop"
               /\ probe'.outcome = "bad_json"
               /\ coins'[c].status = "retry_pending"
            \/ /\ call.runs[r].at = "score_loop"
               /\ probe'.outcome = "scored"
               /\ Len(scores'[c]) = Len(scores[c]) + 1
               /\ coins'[c].status = "deep_analysis_pending"
            \/ /\ call.runs[r].at = "score_loop"
               /\ probe'.outcome = "thrown"
  ]_vars

\* both runs selected the same processing coin in extractFacts and again in
\* calculateScores, and the coin ends with two fact and two score records
CoinProcessedTwice ==
  /\ call.op = "race"
  /\ \A r \in Runs : call.runs[r].at = "done"
  /\ \E c \in CoinIds :
       /\ Len(facts[c]) = 2
       /\ Len(scores[c]) = 2

\* C27: a handleRetries step leaves every coin that is not retry_pending
\* as it is, writes nothing but the status of the others, and decides each
\* selected coin in this order: older than 24 hours -> failed; else some
\* page with status fetched -> processing; else -> pending.
RetryDecisionPrecedence ==
  [][(pc = "retries")
       => /\ \A id \in CoinIds :
               IF coins[id].status # "retry_pending"
               THEN coins'[id] = coins[id]
               ELSE /\ coins'[id] = [coins[id] EXCEPT !.status = coins'[id].status]
                    /\ coins'[id].status \in
                         {"failed", "retry_pending",
                          IF HasFetchedPage(pages, id) THEN "processing" ELSE "pending"}
                    /\ (coins'[id].status = "retry_pending")
                         => Cardinality(CoinsWithStatus(coins, "retry_pending")) > RetryLimit
          /\ (probe'.stage = "retries" /\ probe'.outcome = "too_old")
               => coins'[probe'.coin].status = "failed"
          /\ (probe'.stage = "retries" /\ probe'.outcome = "retry")
               => coins'[probe'.coin].status =
                    IF HasFetchedPage(pages, probe'.coin) THEN "processing" ELSE "pending"
          /\ UNCHANGED <<pages, facts, scores, deep>>
  ]_vars

OldCoinWithFetchedPageFailed ==
  /\ pc = "fetch"
  /\ probe.stage = "retries"
  /\ probe.outcome = "too_old"
  /\ HasFetchedPage(pages, probe.coin)
  /\ coins[probe.coin].status = "failed"

\* C28: in the run in which handleRetries returned a coin to processing
\* because it has fetched pages, fetchPages attempts none of that coin's
\* URLs and leaves its page rows as they are.
RetriedCoinNotRefetched ==
  [][(/\ pc = "fetch"
      /\ probe.stage = "retries"
      /\ probe.outcome = "retry"
      /\ coins[probe.coin].status = "processing")
       => /\ ~(probe'.stage = "fetch" /\ probe'.coin = probe.coin)
          /\ PagesOf(pages', probe.coin) = PagesOf(pages, probe.coin)
  ]_vars

\* ---------------------------------------------------------------------
\* calculateScores and performDeepAnalysis over coins that have one or
\* several fact records
\* ---------------------------------------------------------------------

MaxFactRows == 2

\* the fact records extractFacts can have stored
StoredFactRows ==
  {ExtractedRow("object", r) : r \in {x \in LlmReplies : x.kind = "object"}}
    \cup {FallbackData}

FactHistories == UNION {[1..n -> StoredFactRows] : n \in 1..MaxFactRows}

\* every coin is absent or in processing with its fact records, oldest
\* first; the run is about to enter calculateScores
LatestInit ==
  /\ \E present \in (SUBSET CoinIds) \ {{}} :
       /\ coins = [id \in CoinIds |->
                     IF id \in present
                     THEN [status |-> "processing", url |-> "cg/a", links |-> LinkUrls]
                     ELSE AbsentCoin]
       /\ pages = {PageRow(id, u, "fetched_long") : id \in present, u \in LinkUrls}
       /\ \E h \in [present -> FactHistories] :
            facts = [id \in CoinIds |-> IF id \in present THEN h[id] ELSE <<>>]
  /\ scores = [id \in CoinIds |-> <<>>]
  /\ deep = [id \in CoinIds |-> 0]
  /\ pc = "score"
  /\ response = "none"
  /\ probe = NoProbe
  /\ call = NoCall

LatestNext ==
  \/ CalculateScores
  \/ PerformDeepAnalysis

SpecLatest == LatestInit /\ [][LatestNext]_vars

\* C29: the score record calculateScores stores for a coin is the score of
\* the coin's most recently created fact record.
ScoreUsesLatestFacts ==
  [][(pc = "score" /\ probe'.stage = "score" /\ probe'.outcome = "scored")
       => \E w \in PipelineWeights :
            scores'[probe'.coin][Len(scores'[probe'.coin])]
              = ScoreRow(facts[probe'.coin][Len(facts[probe'.coin])], w)
  ]_vars

\* ---------------------------------------------------------------------
\* fetchPages: the retry loop for one URL of one coin
\* ---------------------------------------------------------------------

maxAttempts == 3

\* a fetch() that throws is the reply with status 0
Thrown == 0

\* what a HEAD request is answered with: a status and the class of the
\* content-type header; the status of a HEAD reply is never read
HeadReplies ==
  {[status |-> Thrown, ctype |-> "none"]}
    \cup {[status |-> st, ctype |-> t] :
            st \in {200, 404, 503}, t \in {"pdf", "json", "html"}}

\* what the GET request is answered with: a status and, for 200, what the
\* body turns out to be
GetReplies ==
  {[status |-> st, body |-> "none"] : st \in {Thrown, 403, 404, 429, 503}}
    \cup {[status |-> 200, body |-> b] :
            b \in {"invalid_content", "js_empty", "insufficient_content",
                   "fetched_short", "fetched_long"}}

\* processPdfDocument: one HEAD request whose status is stored, not tested
PdfResult(reply) ==
  IF reply.status = Thrown THEN "pdf_failed" ELSE "pdf_detected"

\* one execution of the loop body: what it ends with
\*   retry    429 or status >= 500 on the GET request: attempt++
\*   thrown   the catch block: attempt++
\*   any other label: a row is upserted and the loop is left by break
IterationResult(pdfUrl, head, pdf, get) ==
  IF pdfUrl THEN PdfResult(pdf)
  ELSE IF head.status = Thrown THEN "thrown"
  ELSE IF head.ctype = "pdf" THEN PdfResult(pdf)
  ELSE IF head.ctype # "html" THEN "invalid_content"
  ELSE IF get.status = Thrown THEN "thrown"
  ELSE IF get.status = 200 THEN get.body
  ELSE IF get.status = 429 \/ get.status >= 500 THEN "retry"
  ELSE "failed"

\* the status of the last reply received in that execution of the body
LastStatus(pdfUrl, head, pdf, get) ==
  IF pdfUrl THEN pdf.status
  ELSE IF head.status = Thrown THEN Thrown
  ELSE IF head.ctype = "pdf" THEN pdf.status
  ELSE IF head.ctype # "html" THEN head.status
  ELSE get.status

StatusClass(st) ==
  IF st = Thrown \/ st = 429 \/ st >= 500 THEN "retryable"
  ELSE IF st >= 400 THEN "client_error"
  ELSE "ok"

\* coin 1 is in processing; its URL has no row yet, or the row of an
\* earlier run; the URL contains 'pdf' or not
RetryInit ==
  /\ coins = [id \in CoinIds |->
                IF id = 1
                THEN [status |-> "processing", url |-> "cg/a", links |-> LinkUrls]
                ELSE AbsentCoin]
  /\ facts = [id \in CoinIds |-> <<>>]
  /\ scores = [id \in CoinIds |-> <<>>]
  /\ deep = [id \in CoinIds |-> 0]
  /\ pc = "fetch"
  /\ response = "none"
  /\ probe = NoProbe
  /\ \E u \in {"web", "pdf"} :
       /\ pages \in {{}} \cup {{PageRow(1, u, o)} : o \in {"fetched_long", "failed"}}
       /\ call = [op |-> "fetch_url", url |-> u, attempt |-> 0,
                  iterations |-> 0, done |-> FALSE, classes |-> <<>>,
                  forbiddenAt |-> 0]

\* one pass through the body of while (attempt < maxAttempts)
RetryIteration ==
  /\ call.op = "fetch_url"
  /\ ~call.done
  /\ call.attempt < maxAttempts
  /\ \E head \in HeadReplies, pdf \in HeadReplies, get \in GetReplies :
       LET r == IterationResult(IsPdfUrl(call.url), head, pdf, get)
           again == r \in {"retry", "thrown"}
           attempt == IF again THEN call.attempt + 1 ELSE call.attempt
           exhausted == again /\ attempt >= maxAttempts
           stored == IF again THEN "failed" ELSE r
       IN /\ pages' = IF again /\ ~exhausted THEN pages
                      ELSE UpsertPage(pages, PageRow(1, call.url, stored))
          /\ call' = [call EXCEPT
                        !.attempt = attempt,
                        !.iterations = @ + 1,
                        !.done = ~again \/ exhausted,
                        !.classes = Append(@, StatusClass(
                                      LastStatus(IsPdfUrl(call.url), head, pdf, get))),
                        \* the pass in which a reply with status 403 arrived
                        !.forbiddenAt =
                          IF LastStatus(IsPdfUrl(call.url), head, pdf, get) = 403
                          THEN call.iterations + 1 ELSE @]
          /\ probe' = Probe("fetch", 1, call.url, r)
  /\ UNCHANGED <<coins, facts, scores, deep, pc, response>>

RetryNext == RetryIteration

SpecRetry == RetryInit /\ [][RetryNext]_vars

FailedRowRecorded ==
  \E p \in pages : p.coin = 1 /\ p.url = call.url /\ p.status = "failed"

\* C30: the loop never runs its body more than three times; when every
\* pass ended with a 429 or 5xx reply or a thrown fetch error there were
\* three passes and a failed page row is recorded; when the first pass
\* ended with another 4xx reply it was the only pass and a failed page row
\* is recorded.
RetryLoopAsStated ==
  /\ (call.op = "fetch_url") => call.iterations <= maxAttempts
  /\ (call.op = "fetch_url" /\ call.done)
       => /\ (\A i \in 1..Len(call.classes) : call.classes[i] = "retryable")
               => (call.iterations = maxAttempts /\ FailedRowRecorded)
          /\ (call.classes[1] = "client_error")
               => (call.iterations = 1 /\ FailedRowRecorded)

\* C31: when a pass of the retry loop is answered 403, the loop makes at
\* least one further pass before it is left.
ForbiddenIsRetried ==
  (call.op = "fetch_url" /\ call.done /\ call.forbiddenAt > 0)
    => call.iterations > call.forbiddenAt

\* ---------------------------------------------------------------------
\* discoverRecentListings: the settings gate and the scraping loop of one
\* standard run, followed by the stages of that run
\* ---------------------------------------------------------------------

\* what one scraping attempt ends with:
\*   throw    fetch throws or times out, or a non-ok status other than
\*            429 / 5xx / 403 makes the try block throw
\*   again    429, 5xx or 403 (continue), or a body under 1000 characters
\*   parsed   parseCoinGeckoListings returned `listing` (possibly empty)
DiscoverReplies ==
  {[kind |-> k, listing |-> {}] : k \in {"throw", "again"}}
    \cup {[kind |-> "parsed", listing |-> l] : l \in SUBSET CoinUrls}

DiscoverGatedHybridOnly(hybrid, allowed) == hybrid

\* settings.hybrid_mode, or coingecko.com missing from allow_domains
DiscoverGated(hybrid, allowed) == hybrid \/ ~allowed

StageAfterDiscoveryRethrown(last) ==
  IF last = "throw" THEN StageOnThrow("idle") ELSE StageAfter("idle")

\* the outer catch logs and does not rethrow: resolveOfficialLinks follows
StageAfterDiscovery(last) == StageAfter("idle")

\* a standard run has been requested; coin 1 is absent, pending or already
\* analyzed
DiscoverInit ==
  /\ \E st \in {"absent", "pending", "analyzed"} :
       coins = [id \in CoinIds |->
                  IF id = 1 /\ st # "absent"
                  THEN [status |-> st, url |-> "cg/a", links |-> {}]
                  ELSE AbsentCoin]
  /\ pages = {}
  /\ facts = [id \in CoinIds |-> <<>>]
  /\ scores = [id \in CoinIds |-> <<>>]
  /\ deep = [id \in CoinIds |-> 0]
  /\ pc = "idle"
  /\ response = "none"
  /\ probe = NoProbe
  /\ \E hybrid \in BOOLEAN, allowed \in BOOLEAN :
       call = [op |-> "discover", hybrid |-> hybrid, allowed |-> allowed,
               attempt |-> 0, fetches |-> 0, done |-> FALSE,
               last |-> "none", found |-> {}]

\* the function returns at the gate
DiscoverGate ==
  /\ call.op = "discover"
  /\ ~call.done
  /\ DiscoverGated(call.hybrid, call.allowed)
  /\ call' = [call EXCEPT !.done = TRUE, !.last = "gated"]
  /\ pc' = StageAfterDiscovery("gated")
  /\ UNCHANGED <<coins, pages, facts, scores, deep, response, probe>>

\* one pass of while (attempt < maxAttempts && coins.length === 0); the
\* pass after which the loop is left also runs the rest of the function
DiscoverAttempt ==
  /\ call.op = "discover"
  /\ ~call.done
  /\ ~DiscoverGated(call.hybrid, call.allowed)
  /\ call.attempt < maxAttempts
  /\ call.found = {}
  /\ \E reply \in DiscoverReplies :
       LET attempt == call.attempt + 1
           rethrown == reply.kind = "throw" /\ attempt = maxAttempts
           left == rethrown \/ attempt >= maxAttempts \/ reply.listing # {}
       IN /\ call' = [call EXCEPT !.attempt = attempt,
                                  !.fetches = @ + 1,
                                  !.done = left,
                                  !.last = reply.kind,
                                  !.found = reply.listing]
          /\ coins' = IF left /\ ~rethrown /\ reply.listing # {}
                      THEN UpsertCoins(coins, reply.listing)
                      ELSE coins
          /\ pc' = IF left THEN StageAfterDiscovery(reply.kind) ELSE pc
  /\ UNCHANGED <<pages, facts, scores, deep, response, probe>>

DiscoverNext ==
  \/ DiscoverGate
  \/ DiscoverAttempt
  \/ ResolveOfficialLinks
  \/ HandleRetries
  \/ FetchPages
  \/ ExtractFacts
  \/ CalculateScores
  \/ PerformDeepAnalysis

SpecDiscover == DiscoverInit /\ [][DiscoverNext]_vars

\* C32: discovery makes at most 3 attempts and none after one that parsed a
\* coin; it never ends the request with an error: whatever the attempts
\* ended with, the run goes on to resolveOfficialLinks, and when nothing
\* was found the coins are as they were.
DiscoveryBoundedAndNeverThrows ==
  [][(call.op = "discover" /\ pc = "idle")
       => /\ call'.op = "discover"
          /\ call'.attempt <= maxAttempts
          /\ (call'.attempt > call.attempt) => (call.found = {})
          /\ (call'.found # {}) => call'.done
          /\ response' # "error"
          /\ call'.done => pc' = "resolve"
          /\ ~call'.done => (pc' = "idle" /\ call'.attempt < maxAttempts)
          /\ (call'.found = {}) => (coins' = coins)
  ]_vars

DiscoveryFailedThriceRunGoesOn ==
  /\ call.op = "discover"
  /\ call.done
  /\ call.attempt = maxAttempts
  /\ call.last = "throw"
  /\ pc = "resolve"
  /\ coins[1].status = "pending"

\* C33: with hybrid_mode on, or with the listings domain not allowed,
\* discovery sends no request and writes no coin, and the run goes on to
\* resolveOfficialLinks.
GatedDiscoveryIsNoOp ==
  [][(call.op = "discover" /\ pc = "idle" /\ (call.hybrid \/ ~call.allowed))
       => /\ call'.op = "discover"
          /\ call'.fetches = 0
          /\ call'.done
          /\ coins' = coins
          /\ pc' = "resolve"
          /\ response' # "error"
  ]_vars

DomainNotAllowedRunGoesOn ==
  /\ call.op = "discover"
  /\ call.done
  /\ ~call.hybrid
  /\ ~call.allowed
  /\ call.fetches = 0
  /\ pc = "resolve"
  /\ coins[1].status = "pending"

\* C34: when the text extracted from a page has fewer than 50 characters,
\* the page's row carries js_empty or insufficient_content as classified,
\* never fetched, and the page is not among those selected for the
\* fact-extraction prompt.
ShortTextNeverFetched ==
  (/\ call.op = "fetch_url"
   /\ call.done
   /\ probe.outcome \in {"js_empty", "insufficient_content"})
    => /\ \E p \in pages :
            p.coin = 1 /\ p.url = call.url /\ p.status = probe.outcome
       /\ \A p \in FetchedPages(pages, 1) : p.url # call.url

\* ---------------------------------------------------------------------
\* extractFacts on one coin, with the model's reply held in the state
\* ---------------------------------------------------------------------

\* a payload none of whose parts is empty
FullPayload ==
  Payload(<<Claim("team", "doxxed_team", "yes", ProofHost)>>,
          1, 1, 1, 1, <<"guaranteed">>, TRUE, TRUE, 1)

\* parsed objects with every combination of present keys, and the replies
\* that are no object at all
PartialReplies ==
  {[kind |-> "object", obj |-> RawObject(p, k, t, c, r)] :
      p \in {FullPayload, EmptyPayload}, k \in BOOLEAN, t \in BOOLEAN,
      c \in BOOLEAN, r \in BOOLEAN}
    \cup {[kind |-> k, obj |-> RawObject(EmptyPayload, FALSE, FALSE, FALSE, FALSE)] :
            k \in {"api_error", "thrown", "no_span", "bad_json"}}

\* coin 1 is in processing with one fetched page, usable or not, and
\* extractFacts has selected it
ExtractInit ==
  /\ coins = [id \in CoinIds |->
                IF id = 1
                THEN [status |-> "processing", url |-> "cg/a", links |-> LinkUrls]
                ELSE AbsentCoin]
  /\ \E o \in {"fetched_long", "fetched_short"}, u \in LinkUrls :
       pages = {PageRow(1, u, o)}
  /\ facts = [id \in CoinIds |-> <<>>]
  /\ scores = [id \in CoinIds |-> <<>>]
  /\ deep = [id \in CoinIds |-> 0]
  /\ pc = "extract"
  /\ response = "none"
  /\ probe = NoProbe
  /\ \E reply \in PartialReplies :
       call = [op |-> "extract_coin", reply |-> reply, done |-> FALSE]

\* the body of for (const coin of coins) for coin 1
ExtractCoin ==
  /\ pc = "extract"
  /\ call.op = "extract_coin"
  /\ ~call.done
  /\ LET outcome == ExtractOutcome(pages, 1, call.reply)
     IN /\ coins' = [coins EXCEPT ![1].status = ExtractStatus(@, outcome)]
        /\ facts' = [facts EXCEPT ![1] =
                       FactsAfterAttempt(@, ExtractInserts(outcome),
                                         ExtractedRow(outcome, call.reply))]
        /\ probe' = Probe("extract", 1, "none", outcome)
  /\ call' = [call EXCEPT !.done = TRUE]
  /\ pc' = StageAfter("extract")
  /\ UNCHANGED <<pages, scores, deep, response>>

ExtractNext == ExtractCoin \/ CalculateScores \/ PerformDeepAnalysis

SpecExtract == ExtractInit /\ [][ExtractNext]_vars

\* C35: when the reply parses as an object that lacks on_chain_traction,
\* contradictions or red_flags, a fact record is stored in which each
\* missing part is the empty default, and the coin stays in processing.
MissingPartsGetDefaults ==
  [][(/\ call.op = "extract_coin"
      /\ ~call.done
      /\ ValidPages(pages, 1) # {}
      /\ call.reply.kind = "object"
      /\ ~(call.reply.obj.hasTraction /\ call.reply.obj.hasContradictions
           /\ call.reply.obj.hasRedFlags))
       => /\ coins'[1].status = "processing"
          /\ Len(facts'[1]) = Len(facts[1]) + 1
          /\ LET row == facts'[1][Len(facts'[1])]
                 raw == call.reply.obj
             IN /\ ~row.fallback
                /\ ~raw.hasTraction
                     => (row.partners = 0 /\ row.integ_hi = 0 /\ row.integ_lo = 0)
                /\ raw.hasTraction
                     => (row.partners = raw.payload.partners)
                /\ ~raw.hasContradictions => (row.contradictions = 0)
                /\ raw.hasContradictions
                     => (row.contradictions = raw.payload.contradictions)
                /\ ~raw.hasRedFlags
                     => /\ row.guaranteed = <<>>
                        /\ ~row.audit_no_source
                        /\ ~row.copycat
                        /\ row.misleading = 0
                /\ raw.hasRedFlags => (row.guaranteed = raw.payload.guaranteed)
  ]_vars

ObjectWithoutRedFlagsStored ==
  /\ call.op = "extract_coin"
  /\ call.done
  /\ call.reply.kind = "object"
  /\ call.reply.obj.payload = FullPayload
  /\ ~call.reply.obj.hasRedFlags
  /\ call.reply.obj.hasTraction
  /\ Len(facts[1]) = 1
  /\ facts[1][1].guaranteed = <<>>
  /\ facts[1][1].partners = 1
  /\ coins[1].status = "processing"
  /\ pc = "score"

\* ---------------------------------------------------------------------
\* The .limit(n) selections of the six stages, over more matching rows
\* than any limit
\* ---------------------------------------------------------------------
MaxRows == 11

BatchStages == {"resolve", "retries", "fetch", "extract", "score", "deep"}

StageLimit(stage) ==
  CASE stage = "resolve" -> ResolveLimit
    [] stage = "retries" -> RetryLimit
    [] stage = "fetch" -> FetchLimit
    [] stage = "extract" -> ExtractLimit
    [] stage = "score" -> ScoreLimit
    [] stage = "deep" -> DeepLimit

\* updated_at of row i: rising with the id, falling with it, or equal
StampOrders == {"rising", "falling", "equal"}

UpdatedAt(order, i) ==
  CASE order = "rising" -> i
    [] order = "falling" -> MaxRows + 1 - i
    [] OTHER -> 0

\* .order('updated_at', { ascending: true }).limit(n)
OldestFirst(rows, order, limit) ==
  {B \in Batch(rows, limit) :
     \A b \in B, r \in rows \ B : UpdatedAt(order, b) <= UpdatedAt(order, r)}

\* only performDeepAnalysis orders its select
StageSelect(stage, rows, order) ==
  IF stage = "deep" THEN OldestFirst(rows, order, StageLimit(stage))
  ELSE Batch(rows, StageLimit(stage))

\* a stage is about to run its select; rows 1..n match its status filter
BatchInit ==
  /\ coins = [id \in CoinIds |-> AbsentCoin]
  /\ pages = {}
  /\ facts = [id \in CoinIds |-> <<>>]
  /\ scores = [id \in CoinIds |-> <<>>]
  /\ deep = [id \in CoinIds |-> 0]
  /\ pc = "idle"
  /\ response = "none"
  /\ probe = NoProbe
  /\ \E stage \in BatchStages, n \in 0..MaxRows, order \in StampOrders :
       call = [op |-> "select", stage |-> stage, rows |-> 1..n,
               order |-> order, batch |-> {}, done |-> FALSE]

SelectBatch ==
  /\ call.op = "select"
  /\ ~call.done
  /\ \E B \in StageSelect(call.stage, call.rows, call.order) :
       call' = [call EXCEPT !.batch = B, !.done = TRUE]
  /\ UNCHANGED <<coins, pages, facts, scores, deep, pc, response, probe>>

BatchNext == SelectBatch

SpecBatch == BatchInit /\ [][BatchNext]_vars

ProcessingAfterFetchHasFetchedPage ==
  [][(pc = "fetch" /\ pc' = "extract")
       => \A id \in CoinIds :
            (coins[id].status = "processing" /\ coins'[id].status = "processing")
              => HasFetchedPage(pages', id)
  ]_vars

\* ---------------------------------------------------------------------
\* calculateScores and performDeepAnalysis with the weights_json of the
\* seeded settings row
\* ---------------------------------------------------------------------
CalculateScoresSeeded == ScoreStage({SeededWeights})

SeededNext ==
  \/ CalculateScoresSeeded
  \/ PerformDeepAnalysis

SpecSeeded == LatestInit /\ [][SeededNext]_vars

\* C38: a coin in deep_analysis_pending or analyzed has at least one fact
\* record and at least one score record.
AdvancedCoinHasFactsAndScore ==
  \A id \in CoinIds :
    coins[id].status \in {"deep_analysis_pending", "analyzed"}
      => (Len(facts[id]) > 0 /\ Len(scores[id]) > 0)

\* C39: with two runs interleaved, no step takes a coin that is in
\* deep_analysis_pending or analyzed back to insufficient_data, failed,
\* retry_pending or processing.
AdvancedCoinNotWrittenBack ==
  [][\A id \in CoinIds :
       coins[id].status \in {"deep_analysis_pending", "analyzed"}
         => coins'[id].status
              \notin {"insufficient_data", "failed", "retry_pending", "processing"}
  ]_vars

\* ---------------------------------------------------------------------
\* serve: parsing of the request body and the choice of what the request
\* does
\* ---------------------------------------------------------------------

\* a request body as sent: no text at all, text that JSON.parse rejects, or
\* an object; reset_coin_id 0 and manual_url "" stand for an absent key
RawBodies ==
  {[kind |-> "empty", reset_all_stuck |-> FALSE, reset_coin_id |-> 0,
    manual_url |-> ""]}
    \cup {[kind |-> k, reset_all_stuck |-> a, reset_coin_id |-> i, manual_url |-> u] :
            k \in {"unparsable", "object"}, a \in BOOLEAN,
            i \in {0} \cup CoinIds, u \in {"", "bad"} \cup CoinUrls}

\* let body = {}; replaced by JSON.parse(text) only when the text parses
ParseBody(raw) ==
  IF raw.kind = "object" THEN raw
  ELSE [kind |-> "object", reset_all_stuck |-> FALSE, reset_coin_id |-> 0,
        manual_url |-> ""]

RouteManualFirst(body) ==
  IF body.manual_url # "" THEN "manual"
  ELSE IF body.reset_all_stuck THEN "reset_all"
  ELSE IF body.reset_coin_id # 0 THEN "reset_coin"
  ELSE "standard"

\* the chain of if statements on reset_all_stuck, reset_coin_id, manual_url
Route(body) ==
  IF body.reset_all_stuck THEN "reset_all"
  ELSE IF body.reset_coin_id # 0 THEN "reset_coin"
  ELSE IF body.manual_url # "" THEN "manual"
  ELSE "standard"

\* a request has arrived; coin 1 is absent, pending, stuck in processing
\* or analyzed
ServeInit ==
  /\ \E st \in {"absent", "pending", "processing", "analyzed"} :
       coins = [id \in CoinIds |->
                  IF id = 1 /\ st # "absent"
                  THEN [status |-> st, url |-> "cg/a", links |-> {}]
                  ELSE AbsentCoin]
  /\ pages = {}
  /\ facts = [id \in CoinIds |-> <<>>]
  /\ scores = [id \in CoinIds |-> <<>>]
  /\ deep = [id \in CoinIds |-> 0]
  /\ pc = "idle"
  /\ response = "none"
  /\ probe = NoProbe
  /\ \E raw \in RawBodies : call = [op |-> "request", raw |-> raw]

\* the handler up to the first stage of the run, or up to the response of
\* a reset
Serve ==
  /\ pc = "idle"
  /\ call.op = "request"
  /\ LET body == ParseBody(call.raw)
         route == Route(body)
     IN /\ call' = [op |-> "served", raw |-> call.raw, route |-> route]
        /\ \/ /\ route = "reset_all"
              /\ \E stale \in SUBSET CoinIds :
                   /\ coins' = ResetStuckCoinRows(coins, StuckCoins(coins, stale))
                   /\ ResetChildren(StuckCoins(coins, stale))
              /\ response' = "all_coins_reset"
              /\ UNCHANGED pc
           \/ /\ route = "reset_coin"
              /\ coins' = ResetStuckCoinRows(coins, {body.reset_coin_id})
              /\ ResetChildren({body.reset_coin_id})
              /\ response' = "coin_reset"
              /\ UNCHANGED pc
           \/ /\ route = "manual"
              /\ \E fetchOk \in BOOLEAN, insertOk \in BOOLEAN :
                   ProcessManualCoin(body.manual_url, fetchOk, insertOk)
              /\ UNCHANGED <<pages, facts, scores>>
           \/ /\ route = "standard"
              /\ \E gate \in BOOLEAN, listing \in SUBSET CoinUrls :
                   coins' = DiscoverRecentListings(gate, listing)
              /\ pc' = StageAfter("idle")
              /\ response' = "none"
              /\ UNCHANGED <<pages, facts, scores>>
  /\ probe' = NoProbe
  /\ UNCHANGED deep

ServeNext ==
  \/ Serve
  \/ ResolveOfficialLinks
  \/ HandleRetries
  \/ FetchPages
  \/ ExtractFacts
  \/ CalculateScores
  \/ PerformDeepAnalysis

SpecServe == ServeInit /\ [][ServeNext]_vars

\* C40: a request whose body carries reset_all_stuck, or else
\* reset_coin_id, does that reset only, answers with success and starts no
\* stage and no discovery; reset_all_stuck goes before reset_coin_id and
\* both before manual_url; a body that is empty or does not parse starts
\* the standard run with discovery.
RequestRouting ==
  [][(call.op = "request")
       => LET raw == call.raw
              parsed == raw.kind = "object"
              created == {id \in CoinIds : ~Exists(coins, id) /\ Exists(coins', id)}
          IN /\ (parsed /\ raw.reset_all_stuck)
                  => /\ call'.route = "reset_all"
                     /\ response' = "all_coins_reset"
                     /\ pc' = "idle"
                     /\ created = {}
             /\ (parsed /\ ~raw.reset_all_stuck /\ raw.reset_coin_id # 0)
                  => /\ call'.route = "reset_coin"
                     /\ response' = "coin_reset"
                     /\ pc' = "idle"
                     /\ created = {}
                     /\ \A id \in CoinIds \ {raw.reset_coin_id} : coins'[id] = coins[id]
             /\ (/\ parsed
                 /\ ~raw.reset_all_stuck
                 /\ raw.reset_coin_id = 0
                 /\ raw.manual_url # "")
                  => /\ call'.route = "manual"
                     /\ response' \in {"none", "error"}
                     /\ (raw.manual_url = "bad") => (response' = "error")
             /\ (~parsed)
                  => /\ call'.route = "standard"
                     /\ response' = "none"
                     /\ pc' = "resolve"
  ]_vars

ResetWinsOverManualUrl ==
  /\ call.op = "served"
  /\ call.raw.kind = "object"
  /\ call.raw.reset_all_stuck
  /\ call.raw.reset_coin_id = 1
  /\ call.raw.manual_url = "cg/b"
  /\ response = "all_coins_reset"
  /\ pc = "idle"
  /\ coins[1].status = "pending"
  /\ ~Exists(coins, 2)

====
